---- MODULE Spec2Model ----
(***************************************************************************)
(* Browser endpoint of the Lem remote-access tunnel:                       *)
(*   WebRTCConnectionManager  (web/remote/src/lib/webrtc.ts)               *)
(*   RelayClient              (web/remote/src/lib/relay-client.ts)         *)
(*   HTTPProxy                (web/remote/src/lib/proxy-fetch.ts)          *)
(*   WSProxyManager           (lib/ws-proxy.ts, src/unnamed/part_005)      *)
(*   useWebRTC hook           (web/remote/src/hooks/useWebRTC.ts)          *)
(*                                                                         *)
(* One action is one event-loop task together with the promise             *)
(* continuations (microtasks) it releases.  A helper operator takes the    *)
(* whole program state w (a record with one field per object) and returns  *)
(* the state after the method ran, so that a handler is the composition    *)
(* of the methods it calls, in the order the source calls them.            *)
(***************************************************************************)
EXTENDS Integers, Sequences, FiniteSets, TLC

VARIABLES
    mgr,     \* the WebRTCConnectionManager and the sockets/timers it owns
    hook,    \* refs and React state of useWebRTC, and its fallbackToRelay calls
    relays,  \* the RelayClient created by each fallbackToRelay call
    proxy,   \* the HTTPProxy
    wsm,     \* the WSProxyManager and its ProxiedWebSocket objects
    hist,    \* observations of the run (no program reads them)
    codec,   \* the frame codec at work: a frame value, a buffer, a decoder's outcome
    cloud    \* the signaling service's endpoint map and the relay's sessions

vars == <<mgr, hook, relays, proxy, wsm, hist, codec, cloud>>

\* the variables of the browser endpoint
endpoint == <<mgr, hook, relays, proxy, wsm, hist>>

\* ---------------------------------------------------------------- bounds
MaxSock == 2        \* signaling WebSockets (connect attempts) of one manager in a run
MaxFallback == 2    \* fallbackToRelay invocations in a run
MaxReq == 2         \* HTTPProxy.fetch calls in a run
MaxConn == 1        \* WSProxyManager.createConnection calls in a run
MaxMsg == 1         \* WS_DATA frames delivered to one sub-connection in a run
MaxClose == 2       \* close events of a sub-connection after which it is not opened again
MaxStr == 1         \* code points of a string field, bytes of a payload
MaxCloudSock == 3   \* WebSockets that connect to the signaling service, and to the relay, in a run

\* ------------------------------------------------------ program constants
InitialReconnectDelay == 2000
MaxReconnectDelay == 60000
FallbackThreshold == 3

BrowserDeviceId == "browser-A"
TargetDeviceId == "host-B"

ConnectionStates == {"disconnected", "connecting", "connected", "failed", "closed"}
AckStatuses == {"connecting", "connected", "failed"}

SockIds == 1..MaxSock
FbIds == 1..MaxFallback
ReqIds == 1..MaxReq
ConnIds == 1..MaxConn

Min(a, b) == IF a < b THEN a ELSE b

\* `${browserDeviceId}-${targetDeviceId}`
generateSessionId(browserDeviceId, targetDeviceId) ==
    browserDeviceId \o "-" \o targetDeviceId

\* hist.frame is the binary frame that the task of the last step was
\* called with: NoFrame after every step that is no frame reception
NoFrame == [byte |-> 0, id |-> 0]

\* hist.send is the outcome of the manager's sendData when the last step
\* was a call of it: what it threw, and whether it handed the data to the
\* channel; NoSend after every other step
NoSend == [error |-> "none", sent |-> FALSE]

\* hist.closeCode[id] is the code of the close event that the last step
\* fired on sub-connection id; 0 when the step fired none
NoCloseCodes == [id \in ConnIds |-> 0]

World == [mgr |-> mgr, hook |-> hook, relays |-> relays,
          proxy |-> proxy, wsm |-> wsm,
          hist |-> [hist EXCEPT !.frame = NoFrame, !.send = NoSend,
                                !.closeCode = NoCloseCodes,
                                !.calls = <<>>]]

Commit(w) ==
    /\ mgr' = w.mgr
    /\ hook' = w.hook
    /\ relays' = w.relays
    /\ proxy' = w.proxy
    /\ wsm' = w.wsm
    /\ hist' = w.hist
    /\ UNCHANGED <<codec, cloud>>

\* ===================================================================
\* WebRTCConnectionManager (webrtc.ts)
\* ===================================================================

\* Signaling sockets are numbered in creation order.  Every connect() creates
\* a peer connection and then a socket, so the same number names both.
UsedSocks(w) == {s \in SockIds : w.mgr.sock[s] # "unused"}
HasFreeSock(w) == Cardinality(UsedSocks(w)) < MaxSock
NextSock(w) == Cardinality(UsedSocks(w)) + 1

\* this.ws && this.ws.readyState === WebSocket.OPEN
SignalingOpen(w) == w.mgr.ws # 0 /\ w.mgr.sock[w.mgr.ws] = "open"

clearConnectionTimeout(w) ==
    [w EXCEPT !.mgr.connectionTimeout = FALSE]

startConnectionTimeout(w) ==
    [clearConnectionTimeout(w) EXCEPT !.mgr.connectionTimeout = TRUE]

\* dataChannel.close(); pc.close(); both references set to null
closeWebRTCObjects(w) ==
    [w EXCEPT !.mgr.dc = "none", !.mgr.pc = "none", !.mgr.pcId = 0]

\* a cleanup that would also close the signaling socket
cleanupWebRTC_closingSignaling(w) ==
    LET w1 == closeWebRTCObjects(clearConnectionTimeout(w))
    IN  IF w1.mgr.ws = 0 THEN w1
        ELSE [w1 EXCEPT !.mgr.sock[w1.mgr.ws] = "closed", !.mgr.ws = 0]

cleanupWebRTC(w) ==
    closeWebRTCObjects(clearConnectionTimeout(w))

stopReconnection(w) ==
    closeWebRTCObjects(clearConnectionTimeout([w EXCEPT !.mgr.shouldReconnect = FALSE]))

\* sendConnectRequest: the promise executor runs synchronously; the
\* Promise.race wrapper makes resolve/reject of call k clear timer k.
sendConnectRequest(w, k, preferredTransport, relaySessionId) ==
    IF ~SignalingOpen(w)
    THEN [w EXCEPT !.hook.fb[k].phase = "rejected"]
    ELSE [w EXCEPT !.mgr.connectAckPromise = k,
                   !.mgr.ackTimers = @ \cup {k},
                   !.mgr.acksDue = @ + 1,
                   !.hook.fb[k].phase = "awaitAck",
                   !.hook.fb[k].request =
                       [type |-> "connect-request",
                        target_device_id |-> TargetDeviceId,
                        preferred_transport |-> preferredTransport,
                        relay_session_id |-> relaySessionId]]

\* ===================================================================
\* useWebRTC (useWebRTC.ts)
\* ===================================================================

StartedFb(w) == {k \in FbIds : w.hook.fb[k].phase # "idle"}
NextFb(w) == Cardinality(StartedFb(w)) + 1

\* fallbackToRelay up to its first await (lines 177-188)
fallbackToRelay(w) ==
    LET k == NextFb(w)
        sessionId == generateSessionId(BrowserDeviceId, TargetDeviceId)
        w1 == [w EXCEPT !.hook.connectionMode = "relay",
                        !.hook.fb[k].sessionId = sessionId]
    IN  IF k \in FbIds THEN sendConnectRequest(w1, k, "relay", sessionId) ELSE w

\* the fallback threshold test of the state callback (line 107), applied
\* after the failure was counted
thresholdReached(w) == w.hook.failureCount >= FallbackThreshold

\* the onStateChange callback handed to the manager (lines 99-120)
onStateChange(w, state) ==
    LET w1 == [w EXCEPT !.hook.connectionState = state,
                        !.hist.consecutive =
                            IF state = "connected" THEN 0 ELSE @]
    IN  IF state = "failed" /\ ~w1.hook.isRelayFallback
        THEN LET w2 == [w1 EXCEPT !.hook.failureCount = @ + 1,
                                  !.hist.consecutive = @ + 1]
             IN  IF thresholdReached(w2)
                 THEN fallbackToRelay(stopReconnection(
                          [w2 EXCEPT !.hook.isRelayFallback = TRUE]))
                 ELSE w2
        ELSE w1

\* the onStateChange callback handed to a RelayClient (lines 201-203)
relayOnStateChange(w, state) ==
    [w EXCEPT !.hook.connectionState = state]

\* ===================================================================
\* WebRTCConnectionManager, continued
\* ===================================================================

\* hist.calls lists the setState calls of the step, each with whether it
\* invoked onStateChange, in the runs that watch them (hist.watch)
Called(w, state, notified) ==
    IF w.hist.watch
    THEN [w EXCEPT !.hist.calls =
                       Append(@, [state |-> state, notified |-> notified])]
    ELSE w

\* a setState that would notify whatever the present state
setState_always(w, state) ==
    onStateChange(Called([w EXCEPT !.mgr.state = state,
                                   !.hist.notified = TRUE], state, TRUE),
                  state)

\* setState (lines 594-601)
setState(w, state) ==
    IF w.mgr.state # state
    THEN onStateChange(Called([w EXCEPT !.mgr.state = state,
                                        !.hist.notified = TRUE], state, TRUE),
                       state)
    ELSE Called(w, state, FALSE)

\* a sendData without the guard of line 273
sendData_unguarded(w) ==
    [w EXCEPT !.hist.send = [error |-> "", sent |-> TRUE]]

\* sendData(data) (lines 272-283): mgr.dc is "none" while this.dataChannel
\* is null, and the channel's readyState otherwise
sendData(w) ==
    IF w.mgr.dc = "none" \/ w.mgr.dc # "open"
    THEN [w EXCEPT !.hist.send =
                       [error |-> "DataChannel not open", sent |-> FALSE]]
    ELSE [w EXCEPT !.hist.send = [error |-> "", sent |-> TRUE]]

handleReconnect(w) ==
    IF ~w.mgr.shouldReconnect
    THEN w
    ELSE [w EXCEPT !.mgr.reconnectTimers = @ + 1,
                   !.mgr.reconnectDelay = Min(@ * 2, MaxReconnectDelay)]

\* the catch block of connect() / connectSignalingOnly()
connectCatch(w) ==
    setState(clearConnectionTimeout(w), "failed")

connectSignalingOnlyCatch(w) ==
    setState(w, "failed")

\* connect() up to `await this.connectSignaling()`
connect(w, origin) ==
    LET w1 == setState(w, "connecting")
        s == NextSock(w1)
    IN  IF ~w1.hook.rtc
        THEN connectCatch(w1)
        ELSE [w1 EXCEPT !.mgr.pc = "new", !.mgr.pcId = s,
                        !.mgr.dc = "connecting",
                        !.mgr.ws = s, !.mgr.sock[s] = "connecting",
                        !.mgr.procs = @ \cup
                            {[origin |-> origin, phase |-> "sig", sock |-> s, pc |-> 0]}]

\* connectSignalingOnly() up to `await this.connectSignaling()`
connectSignalingOnly(w) ==
    LET w1 == setState(w, "connecting")
        s == NextSock(w1)
    IN  [w1 EXCEPT !.mgr.ws = s, !.mgr.sock[s] = "connecting",
                   !.mgr.procs = @ \cup
                       {[origin |-> "sigonly", phase |-> "sig", sock |-> s, pc |-> 0]}]

disconnect(w) ==
    LET w1 == closeWebRTCObjects(clearConnectionTimeout(
                  [w EXCEPT !.mgr.shouldReconnect = FALSE]))
        s == w1.mgr.ws
        w2 == IF s = 0 THEN w1
              ELSE [w1 EXCEPT !.mgr.ws = 0,
                              !.mgr.sock[s] =
                                  IF @ = "connecting" THEN "aborted"
                                  ELSE IF @ = "open" THEN "closed" ELSE @]
    IN  setState(w2, "disconnected")

\* ===================================================================
\* RelayClient (relay-client.ts); relays[k] is the client that the k-th
\* fallbackToRelay call constructs
\* ===================================================================

relaySetState(w, k, state) ==
    IF w.relays[k].state # state
    THEN relayOnStateChange([w EXCEPT !.relays[k].state = state], state)
    ELSE w

\* RelayClient.connect() up to `await this.connectRelay()`; awaited tells
\* whether fallbackToRelay (TRUE) or the reconnect timer (FALSE) awaits it
relayConnect(w, k, awaited) ==
    [relaySetState(w, k, "connecting") EXCEPT
        !.relays[k].ws = "connecting",
        !.relays[k].awaited = awaited,
        !.relays[k].dialled = w.relays[k].sessionId]

\* a relay client that would never schedule a re-dial
relayHandleReconnect_never(w, k) == w

relayHandleReconnect(w, k) ==
    IF ~w.relays[k].shouldReconnect
    THEN w
    ELSE [w EXCEPT !.relays[k].timers = @ + 1]

\* the socket stays alive after `this.ws = null` until its events are
\* delivered: it is kept in `zombie`
relayDisconnect(w, k) ==
    LET cur == w.relays[k].ws
        w1 == [w EXCEPT !.relays[k].shouldReconnect = FALSE,
                        !.relays[k].ws = "none",
                        !.relays[k].zombie =
                            IF cur \in {"connecting", "open"} THEN cur ELSE @]
    IN  relaySetState(w1, k, "disconnected")

relayIsConnected(w, k) ==
    w.relays[k].state = "connected" /\ w.relays[k].ws = "open"

relayGetDataChannelState(w, k) == w.relays[k].ws

\* ===================================================================
\* useWebRTC: fallbackToRelay after its awaits
\* ===================================================================

\* the test of the ack in fallbackToRelay (line 190): anything but status
\* failed lets the fallback go on
ackAccepted_any(status) == TRUE

ackAccepted(status) == status # "failed"

\* lines 190-229: the ack arrived; construct the RelayClient and dial
fallbackAfterAck(w, k, status) ==
    IF ~ackAccepted(status)
    THEN [w EXCEPT !.hook.fb[k].phase = "rejected"]
    ELSE relayConnect(
             [w EXCEPT !.hook.fb[k].phase = "awaitRelay",
                       !.hook.fb[k].ack = status,
                       !.hook.relayRef = k,
                       !.relays[k].created = TRUE,
                       !.relays[k].sessionId = w.hook.fb[k].sessionId],
             k, TRUE)

\* lines 246-249: the catch block, reached by a rejected await; the call
\* returns and its local `ack` is gone
fallbackCatch(w, k) ==
    [w EXCEPT !.hook.fb[k].phase = "rejected", !.hook.fb[k].ack = "none"]

\* WSProxyManager.updateConnectionManager is called by the hook (line 241)
\* but its definition is not among the sources: it is taken to replace the
\* manager's connection reference and nothing else.
updateConnectionManager(w, k) ==
    [w EXCEPT !.wsm.webrtc = k]

setTransport(w, k) ==
    [w EXCEPT !.proxy.transport = k]

\* lines 230-245: relayClient.connect() resolved
fallbackAfterRelay(w, k) ==
    [updateConnectionManager(setTransport(w, k), k) EXCEPT
        !.hook.fb[k].phase = "done", !.hook.fb[k].ack = "none"]

\* ===================================================================
\* WebRTCConnectionManager: continuations of connect()
\* ===================================================================

\* `await this.connectSignaling()` resolved for process p
afterSignaling(w, p) ==
    LET w1 == [w EXCEPT !.mgr.procs = @ \ {p}]
    IN  IF p.origin = "sigonly"
        THEN fallbackToRelay(w1)
        ELSE IF w1.mgr.pc = "none"
             THEN connectCatch(w1)
             ELSE [w1 EXCEPT !.mgr.procs = @ \cup
                      {[p EXCEPT !.phase = "offer", !.pc = w1.mgr.pcId]}]

\* `await this.connectSignaling()` rejected for process p
signalingRejected(w, p) ==
    LET w1 == [w EXCEPT !.mgr.procs = @ \ {p}]
    IN  IF p.origin = "sigonly" THEN connectSignalingOnlyCatch(w1)
        ELSE connectCatch(w1)

\* createOffer/setLocalDescription settled for process p; then
\* sendSignalingMessage(offer), startConnectionTimeout, and for a retry the
\* reset of reconnectDelay (handleReconnect line 622)
afterOffer(w, p) ==
    LET w1 == [w EXCEPT !.mgr.procs = @ \ {p}]
    IN  IF w1.mgr.pcId # p.pc \/ ~SignalingOpen(w1)
        THEN connectCatch(w1)
        ELSE LET w2 == startConnectionTimeout(
                           [w1 EXCEPT !.mgr.pc = "connecting"])
             IN  IF p.origin = "timer"
                 THEN [w2 EXCEPT !.mgr.reconnectDelay = InitialReconnectDelay]
                 ELSE w2

\* processSignalingMessage, case 'connect-ack-received'
processConnectAck(w, status) ==
    LET k == w.mgr.connectAckPromise
    IN  IF k = 0 THEN w
        ELSE fallbackAfterAck(
                 [w EXCEPT !.mgr.connectAckPromise = 0,
                           !.mgr.ackTimers = @ \ {k}], k, status)

\* the setTimeout callback of sendConnectRequest call j
connectAckTimeout(w, j) ==
    LET k == w.mgr.connectAckPromise
        w1 == [w EXCEPT !.mgr.ackTimers = @ \ {j}]
    IN  IF k = 0 THEN w1
        ELSE fallbackCatch(
                 [w1 EXCEPT !.mgr.connectAckPromise = 0,
                            !.mgr.ackTimers = @ \ {k}], k)

\* ===================================================================
\* HTTPProxy (proxy-fetch.ts)
\* ===================================================================

\* proxy.transport = 0 is the WebRTCTransport built at line 153 of the hook,
\* k > 0 the RelayTransport over relays[k]
transportIsOpen(w) ==
    IF w.proxy.transport = 0 THEN w.mgr.dc = "open"
    ELSE relayIsConnected(w, w.proxy.transport)

Settle(cur, outcome) == IF cur = "pending" THEN outcome ELSE cur

\* a counter that would not advance
advanceRequestId_stuck(w) == w

\* the increment of `this.nextRequestId++` (line 154)
advanceRequestId(w) ==
    [w EXCEPT !.proxy.nextRequestId = @ + 1]

\* fetch(); throws tells whether transport.sendData raises
fetch(w, throws) ==
    LET id == w.proxy.nextRequestId
        w1 == [advanceRequestId(w) EXCEPT
                        !.proxy.pendingRequests = @ \cup {id},
                        !.proxy.timers = @ \cup {id},
                        !.proxy.promise[id] = "pending"]
    IN  IF ~transportIsOpen(w1)
        THEN [w1 EXCEPT !.proxy.timers = @ \ {id},
                        !.proxy.pendingRequests = @ \ {id},
                        !.proxy.promise[id] = "Transport not open"]
        ELSE IF throws
        THEN \* catch block, then the statements after try/catch (lines 194-205)
             [w1 EXCEPT !.proxy.timers = @ \ {id},
                        !.proxy.pendingRequests = (@ \ {id}) \cup {id},
                        !.proxy.promise[id] = "send failed"]
        ELSE w1

\* a response that would be given to the oldest pending request
resolvePending_oldest(w, id) ==
    LET first == CHOOSE i \in w.proxy.pendingRequests :
                     \A j \in w.proxy.pendingRequests : i <= j
    IN  [w EXCEPT !.proxy.pendingRequests = @ \ {first},
                  !.proxy.timers = @ \ {first},
                  !.proxy.promise[first] = Settle(@, "resolved")]

\* lines 227-232: delete the entry and call its (wrapped) resolve, which
\* clears the timer
resolvePending(w, id) ==
    [w EXCEPT !.proxy.pendingRequests = @ \ {id},
              !.proxy.timers = @ \ {id},
              !.proxy.promise[id] = Settle(@, "resolved")]

\* a drop that would empty the pending table
dropResponse_clearing(w) ==
    [w EXCEPT !.proxy.pendingRequests = {}]

\* lines 222-225: no pending entry, warn and return
dropResponse(w) == w

\* handleResponse for a frame whose request_id is id
handleResponse(w, id) ==
    IF id \notin w.proxy.pendingRequests
    THEN dropResponse(w)
    ELSE resolvePending(w, id)

\* a timer callback that would reject without deleting the entry
requestTimeout_keepingEntry(w, id) ==
    [w EXCEPT !.proxy.timers = @ \ {id},
              !.proxy.promise[id] = Settle(@, "Request timeout")]

\* the setTimeout callback of fetch (lines 171-174)
requestTimeout(w, id) ==
    [w EXCEPT !.proxy.timers = @ \ {id},
              !.proxy.pendingRequests = @ \ {id},
              !.proxy.promise[id] = Settle(@, "Request timeout")]

clearPending(w) ==
    [w EXCEPT !.proxy.timers = @ \ w.proxy.pendingRequests,
              !.proxy.pendingRequests = {},
              !.proxy.promise = [id \in ReqIds |->
                  IF id \in w.proxy.pendingRequests
                  THEN Settle(w.proxy.promise[id], "Connection closed")
                  ELSE w.proxy.promise[id]]]

\* ===================================================================
\* ProxiedWebSocket and WSProxyManager (ws-proxy.ts)
\* ===================================================================

\* getDataChannelState() of the connection object a ProxiedWebSocket holds
viaDataChannelState(w, via) ==
    IF via = 0 THEN w.mgr.dc ELSE relayGetDataChannelState(w, via)

pwsHandleClose(w, id, closeCode) ==
    [w EXCEPT !.wsm.conn[id].readyState = "CLOSED",
              !.wsm.conn[id].closeEvents = @ + 1,
              !.hist.closeCode[id] = closeCode]

\* handleOpen (lines 286-292): no look at the present state
pwsHandleOpen(w, id) ==
    [w EXCEPT !.wsm.conn[id].readyState = "OPEN"]

\* handleData (lines 231-260): a message event, whatever the state
pwsHandleData(w, id) ==
    [w EXCEPT !.wsm.conn[id].messageEvents = @ + 1]

pwsHandleError(w, id) ==
    IF w.wsm.conn[id].readyState # "CLOSED"
    THEN pwsHandleClose(w, id, 1006) ELSE w

\* a constructor that would never send the WS_CONNECT frame
pwsConstruct_silent(w, id) ==
    [w EXCEPT !.wsm.conn[id] =
        [readyState |-> "CONNECTING", via |-> w.wsm.webrtc, closeEvents |-> 0,
         closeFrames |-> 0, messageEvents |-> 0]]

\* constructor: sendConnectFrame(); connectFrames holds the connection ids
\* of the WS_CONNECT frames handed to the transport
pwsConstruct(w, id) ==
    LET w1 == [w EXCEPT !.wsm.conn[id] =
                   [readyState |-> "CONNECTING", via |-> w.wsm.webrtc,
                    closeEvents |-> 0, closeFrames |-> 0,
                    messageEvents |-> 0]]
    IN  IF viaDataChannelState(w1, w1.wsm.conn[id].via) # "open"
        THEN pwsHandleError(w1, id)
        ELSE [w1 EXCEPT !.wsm.connectFrames = @ \cup {id}]

\* a createConnection that would not advance the counter
createConnection_reusing(w) ==
    LET id == w.wsm.nextConnectionId
    IN  [pwsConstruct(w, id) EXCEPT !.wsm.connections = @ \cup {id}]

createConnection(w) ==
    LET id == w.wsm.nextConnectionId
    IN  [pwsConstruct([w EXCEPT !.wsm.nextConnectionId = @ + 1], id) EXCEPT
            !.wsm.connections = @ \cup {id}]

\* close(code, reason): sendData throws when the channel is not open;
\* closeFrames counts the WS_CLOSE frames handed to the transport
pwsClose(w, id, code) ==
    IF w.wsm.conn[id].readyState \in {"CLOSING", "CLOSED"}
    THEN w
    ELSE LET w1 == [w EXCEPT !.wsm.conn[id].readyState = "CLOSING"]
         IN  IF viaDataChannelState(w1, w1.wsm.conn[id].via) = "open"
             THEN pwsHandleClose(
                      [w1 EXCEPT !.wsm.conn[id].closeFrames = @ + 1], id, code)
             ELSE pwsHandleError(w1, id)

\* send(data) and sendDataFrame: throws unless OPEN; a failing sendData is
\* caught and handled as an error
pwsSend(w, id) ==
    IF w.wsm.conn[id].readyState # "OPEN"
    THEN w
    ELSE IF viaDataChannelState(w, w.wsm.conn[id].via) = "open"
    THEN w
    ELSE pwsHandleError(w, id)

handleDataFrame(w, id) ==
    IF id \in w.wsm.connections THEN pwsHandleData(w, id) ELSE w

handleConnectionOpened(w, id) ==
    IF id \in w.wsm.connections THEN pwsHandleOpen(w, id) ELSE w

\* the closeCode of the WS_CLOSE frames that arrive
FrameCloseCode == 1000

handleCloseFrame(w, id) ==
    IF id \in w.wsm.connections
    THEN [pwsHandleClose(w, id, FrameCloseCode) EXCEPT
             !.wsm.connections = @ \ {id}]
    ELSE w

RECURSIVE closeEach(_, _)
closeEach(w, ids) ==
    IF ids = {} THEN w
    ELSE LET id == CHOOSE i \in ids : TRUE
         IN  closeEach(pwsClose(w, id, 1001), ids \ {id})

closeAll(w) ==
    [closeEach(w, w.wsm.connections) EXCEPT !.wsm.connections = {}]

\* ===================================================================
\* WebSocket intercept (websocket-intercept.ts).  Of a URL the rules read
\* two things: whether its path contains /signal and whether its query has
\* a client parameter; of the page, whether its query has a non-empty
\* client parameter.
\* ===================================================================

Urls == [signal : BOOLEAN, client : BOOLEAN]

\* rules that would look at the client parameters first
shouldProxyWebSocket_clientFirst(url, pageClient) ==
    url.client \/ pageClient

shouldProxyWebSocket(url, pageClient) ==
    IF url.signal THEN FALSE
    ELSE IF url.client THEN TRUE
    ELSE pageClient

teardownWebSocketIntercept(w) ==
    [w EXCEPT !.wsm.active = FALSE]

\* window.WebSocket while the intercept is installed
ProxiedWebSocketConstructor(w, url, pageClient) ==
    IF shouldProxyWebSocket(url, pageClient) /\ w.wsm.active
    THEN [createConnection(w) EXCEPT
             !.hist.construct = [kind |-> "proxied", url |-> url,
                                 pageClient |-> pageClient,
                                 id |-> w.wsm.nextConnectionId]]
    ELSE [w EXCEPT
             !.hist.construct = [kind |-> "native", url |-> url,
                                 pageClient |-> pageClient, id |-> 0]]

\* ===================================================================
\* Frame dispatch of the hook: onDataChannelMessage (useWebRTC.ts 121-144)
\* and the RelayClient's onMessage (204-220), the same code twice.  Of a
\* binary frame the dispatch and the handlers read the first byte and the
\* request or connection id.
\* ===================================================================

\* FrameType (http-frame.ts 52-58)
HTTP_REQUEST == 1
HTTP_RESPONSE == 2
WS_CONNECT == 16
WS_DATA == 17
WS_CLOSE == 18

\* first bytes of the frames the environment delivers: the five types and
\* a byte that is no type
FirstBytes == {HTTP_REQUEST, HTTP_RESPONSE, WS_CONNECT, WS_DATA, WS_CLOSE, 255}

\* a dispatch that would take every frame below 0x10 for a response
routeFrame_byRange(w, byte, id) ==
    IF byte < WS_CONNECT THEN handleResponse(w, id)
    ELSE IF byte = WS_DATA THEN handleDataFrame(w, id)
    ELSE IF byte = WS_CLOSE THEN handleCloseFrame(w, id)
    ELSE w

\* the if/else-if chain on the first byte
routeFrame(w, byte, id) ==
    IF byte = HTTP_RESPONSE THEN handleResponse(w, id)
    ELSE IF byte = WS_DATA THEN handleDataFrame(w, id)
    ELSE IF byte = WS_CLOSE THEN handleCloseFrame(w, id)
    ELSE w

\* the callback called with a binary message
onMessage(w, byte, id) ==
    routeFrame([w EXCEPT !.hist.frame = [byte |-> byte, id |-> id]], byte, id)

\* ===================================================================
\* Frame codec: http-frame.ts (src/unnamed/part_004) and the WebSocket
\* frames (websocket-intercept.ts 246-475).  A buffer is a sequence of
\* bytes, a string a sequence of code points; offsets are counted from 0
\* as in the source.
\* ===================================================================

\* DataView.setUint8/16/32(offset, value, false): big-endian, the value
\* taken modulo the width
U8(v) == <<v % 256>>

\* a 16-bit write that would put the low byte first
U16_littleEndian(v) == <<v % 256, (v \div 256) % 256>>

U16(v) == <<(v \div 256) % 256, v % 256>>

\* A 32-bit unsigned value is the pair <<high, low>> of its 16-bit halves
\* (the checker's integers are 32-bit signed): its four bytes, high first
U32(v) == U16(v[1]) \o U16(v[2])

\* the 32-bit value of a byte count
ToU32(n) == <<n \div 65536, n % 65536>>

\* a 32-bit length as a byte count; 65536 stands for every length from
\* 2^16 on, which is beyond the end of every buffer here
AsLength(v) == IF v[1] = 0 THEN v[2] ELSE 65536

\* DataView.getUint8/16/32(offset, false); the caller has checked the range
getUint8(buf, off) == buf[off + 1]

getUint16(buf, off) == buf[off + 1] * 256 + buf[off + 2]

getUint32(buf, off) == <<getUint16(buf, off), getUint16(buf, off + 2)>>

\* whether n bytes from offset off lie inside the buffer: outside, DataView
\* reads and `new Uint8Array(buffer, offset, n)` throw a RangeError
InRange(buf, off, n) == off + n <= Len(buf)

\* new Uint8Array(buffer, off, n)
Bytes(buf, off, n) == SubSeq(buf, off + 1, off + n)

\* ArrayBuffer.slice(off, off + n): clamps to the buffer, never throws
Slice(buf, off, n) ==
    SubSeq(buf, off + 1, IF off + n <= Len(buf) THEN off + n ELSE Len(buf))

BOM == 65279
ReplacementChar == 65533

\* UTF-8 of one code point of the Basic Multilingual Plane; a lone
\* surrogate is encoded as U+FFFD
Utf8(cp) ==
    LET c == IF cp \in 55296..57343 THEN ReplacementChar ELSE cp
    IN  IF c < 128 THEN <<c>>
        ELSE IF c < 2048 THEN <<192 + (c \div 64), 128 + (c % 64)>>
        ELSE <<224 + (c \div 4096), 128 + ((c \div 64) % 64), 128 + (c % 64)>>

\* TextEncoder.encode
RECURSIVE TextEncode(_)
TextEncode(str) ==
    IF str = <<>> THEN <<>> ELSE Utf8(Head(str)) \o TextEncode(Tail(str))

IsContinuation(b) == b \in 128..191

\* the code points of a byte sequence; a byte that starts no well-formed
\* sequence gives U+FFFD
RECURSIVE Utf8Decode(_)
Utf8Decode(bytes) ==
    IF bytes = <<>> THEN <<>>
    ELSE LET b == bytes[1]
             n == Len(bytes)
         IN  IF b < 128
             THEN <<b>> \o Utf8Decode(Tail(bytes))
             ELSE IF b \in 194..223 /\ n >= 2 /\ IsContinuation(bytes[2])
             THEN <<(b - 192) * 64 + (bytes[2] - 128)>>
                      \o Utf8Decode(SubSeq(bytes, 3, n))
             ELSE IF /\ b \in 224..239 /\ n >= 3
                     /\ IsContinuation(bytes[2]) /\ IsContinuation(bytes[3])
             THEN <<(b - 224) * 4096 + (bytes[2] - 128) * 64 + (bytes[3] - 128)>>
                      \o Utf8Decode(SubSeq(bytes, 4, n))
             ELSE <<ReplacementChar>> \o Utf8Decode(Tail(bytes))

\* TextDecoder.decode of `new TextDecoder()`: utf-8, fatal false, ignoreBOM
\* false, so that a leading U+FEFF is taken for a byte order mark and removed
TextDecode(bytes) ==
    LET str == Utf8Decode(bytes)
    IN  IF str # <<>> /\ str[1] = BOM THEN Tail(str) ELSE str

\* code points of the sample strings: a (one byte), e acute (two bytes),
\* U+FEFF (three bytes)
Chars == {97, 233, BOM}

Strings == UNION {[1..n -> Chars] : n \in 0..MaxStr}

\* 'GET', 'POST'
Methods == {<<71, 69, 84>>, <<80, 79, 83, 84>>}

\* payload of a WS_DATA frame
Payloads == UNION {[1..n -> {0, 255}] : n \in 0..MaxStr}

\* header records: none, and {"A":"b"}; a record is the set of its
\* name/value pairs
HeaderValues == {{}, {<<"A", "b">>}}

\* JSON.stringify of a header record: {} and {"A":"b"}
JSONstringify(headers) ==
    IF headers = {} THEN <<123, 125>>
    ELSE <<123, 34, 65, 34, 58, 34, 98, 34, 125>>

JSONisText(text) == \E h \in HeaderValues : JSONstringify(h) = text

\* JSON.parse of a text for which JSONisText holds (any other text makes
\* it throw a SyntaxError)
JSONparse(text) == CHOOSE h \in HeaderValues : JSONstringify(h) = text

\* request and connection ids (0, 1 and 2^32 - 1), status and close codes,
\* opcodes of the frames
Ids32 == {<<0, 0>>, <<0, 1>>, <<65535, 65535>>}
StatusCodes == {200, 503}
CloseCodes == {1000, 1006}
Opcodes == {1, 2}

HTTPRequestFrames ==
    [type : {HTTP_REQUEST}, requestId : Ids32, method : Methods,
     path : Strings, headers : HeaderValues, body : Strings]

HTTPResponseFrames ==
    [type : {HTTP_RESPONSE}, requestId : Ids32, statusCode : StatusCodes,
     headers : HeaderValues, body : Strings]

WSConnectFrames ==
    [type : {WS_CONNECT}, connectionId : Ids32, url : Strings,
     headers : HeaderValues]

WSDataFrames ==
    [type : {WS_DATA}, connectionId : Ids32, opcode : Opcodes,
     payload : Payloads]

WSCloseFrames ==
    [type : {WS_CLOSE}, connectionId : Ids32, closeCode : CloseCodes,
     reason : Strings]

FrameValues ==
    HTTPRequestFrames \cup HTTPResponseFrames \cup WSConnectFrames
        \cup WSDataFrames \cup WSCloseFrames

\* a length-prefixed field: u16 or u32 length, then the bytes
Field16(bytes) == U16(Len(bytes)) \o bytes

Field32(bytes) == U32(ToU32(Len(bytes))) \o bytes

\* the layout of protocol version 1: no frame type byte
serializeRequest_v1(frame) ==
    U32(frame.requestId)
        \o Field16(TextEncode(frame.method))
        \o Field16(TextEncode(frame.path))
        \o Field32(TextEncode(JSONstringify(frame.headers)))
        \o Field32(TextEncode(frame.body))

serializeRequest(frame) ==
    U8(HTTP_REQUEST) \o U32(frame.requestId)
        \o Field16(TextEncode(frame.method))
        \o Field16(TextEncode(frame.path))
        \o Field32(TextEncode(JSONstringify(frame.headers)))
        \o Field32(TextEncode(frame.body))

serializeResponse(frame) ==
    U8(HTTP_RESPONSE) \o U32(frame.requestId) \o U16(frame.statusCode)
        \o Field32(TextEncode(JSONstringify(frame.headers)))
        \o Field32(TextEncode(frame.body))

serializeWSConnect(frame) ==
    U8(WS_CONNECT) \o U32(frame.connectionId)
        \o Field16(TextEncode(frame.url))
        \o Field32(TextEncode(JSONstringify(frame.headers)))

serializeWSData(frame) ==
    U8(WS_DATA) \o U32(frame.connectionId) \o U8(frame.opcode)
        \o Field32(frame.payload)

serializeWSClose(frame) ==
    U8(WS_CLOSE) \o U32(frame.connectionId) \o U16(frame.closeCode)
        \o Field16(TextEncode(frame.reason))

serialize(frame) ==
    CASE frame.type = HTTP_REQUEST -> serializeRequest(frame)
      [] frame.type = HTTP_RESPONSE -> serializeResponse(frame)
      [] frame.type = WS_CONNECT -> serializeWSConnect(frame)
      [] frame.type = WS_DATA -> serializeWSData(frame)
      [] frame.type = WS_CLOSE -> serializeWSClose(frame)

\* outcome of a decoder: the frame it returns or the error it throws
NoValue == [type |-> 0]

Returns(frame) == [error |-> "none", frame |-> frame]

Throws(error) == [error |-> error, frame |-> NoValue]

\* a type check that would accept every first byte
ExpectType_lenient(buf, type, name, rest) == rest

\* lines 158-164 and their like: read the first byte, compare, throw
ExpectType(buf, type, name, rest) ==
    IF ~InRange(buf, 0, 1) THEN Throws("RangeError")
    ELSE IF getUint8(buf, 0) # type THEN Throws("Expected " \o name \o " frame")
    ELSE rest

\* the two trailing fields of the HTTP frames, from offset off: u32
\* headers_len, headers_json, u32 body_len, body
HeadersAndBody(buf, off, partial) ==
    IF ~InRange(buf, off, 4) THEN Throws("RangeError")
    ELSE LET headersLen == AsLength(getUint32(buf, off))
         IN  IF ~InRange(buf, off + 4, headersLen) THEN Throws("RangeError")
             ELSE LET headersJson == TextDecode(Bytes(buf, off + 4, headersLen))
                      o2 == off + 4 + headersLen
                  IN  IF ~JSONisText(headersJson) THEN Throws("SyntaxError")
                      ELSE IF ~InRange(buf, o2, 4) THEN Throws("RangeError")
                      ELSE LET bodyLen == AsLength(getUint32(buf, o2))
                           IN  IF ~InRange(buf, o2 + 4, bodyLen)
                               THEN Throws("RangeError")
                               ELSE Returns(
                                   [h \in {"headers", "body"} |->
                                       IF h = "headers" THEN JSONparse(headersJson)
                                       ELSE TextDecode(Bytes(buf, o2 + 4, bodyLen))]
                                       @@ partial)

deserializeRequest(buf) ==
    ExpectType(buf, HTTP_REQUEST, "HTTP_REQUEST",
      IF ~InRange(buf, 1, 4) \/ ~InRange(buf, 5, 2) THEN Throws("RangeError")
      ELSE LET methodLen == getUint16(buf, 5)
           IN  IF ~InRange(buf, 7, methodLen) \/ ~InRange(buf, 7 + methodLen, 2)
               THEN Throws("RangeError")
               ELSE LET o2 == 7 + methodLen
                        pathLen == getUint16(buf, o2)
                    IN  IF ~InRange(buf, o2 + 2, pathLen) THEN Throws("RangeError")
                        ELSE HeadersAndBody(buf, o2 + 2 + pathLen,
                               [type |-> HTTP_REQUEST,
                                requestId |-> getUint32(buf, 1),
                                method |-> TextDecode(Bytes(buf, 7, methodLen)),
                                path |-> TextDecode(Bytes(buf, o2 + 2, pathLen))]))

deserializeResponse(buf) ==
    ExpectType(buf, HTTP_RESPONSE, "HTTP_RESPONSE",
      IF ~InRange(buf, 1, 4) \/ ~InRange(buf, 5, 2) THEN Throws("RangeError")
      ELSE HeadersAndBody(buf, 7,
             [type |-> HTTP_RESPONSE,
              requestId |-> getUint32(buf, 1),
              statusCode |-> getUint16(buf, 5)]))

deserializeWSConnect(buf) ==
    ExpectType(buf, WS_CONNECT, "WS_CONNECT",
      IF ~InRange(buf, 1, 4) \/ ~InRange(buf, 5, 2) THEN Throws("RangeError")
      ELSE LET urlLen == getUint16(buf, 5)
               o2 == 7 + urlLen
           IN  IF ~InRange(buf, 7, urlLen) \/ ~InRange(buf, o2, 4)
               THEN Throws("RangeError")
               ELSE LET headersLen == AsLength(getUint32(buf, o2))
                    IN  IF ~InRange(buf, o2 + 4, headersLen)
                        THEN Throws("RangeError")
                        ELSE LET headersJson ==
                                     TextDecode(Bytes(buf, o2 + 4, headersLen))
                             IN  IF ~JSONisText(headersJson)
                                 THEN Throws("SyntaxError")
                                 ELSE Returns(
                                     [type |-> WS_CONNECT,
                                      connectionId |-> getUint32(buf, 1),
                                      url |-> TextDecode(Bytes(buf, 7, urlLen)),
                                      headers |-> JSONparse(headersJson)]))

deserializeWSData(buf) ==
    ExpectType(buf, WS_DATA, "WS_DATA",
      IF ~InRange(buf, 1, 4) \/ ~InRange(buf, 5, 1) \/ ~InRange(buf, 6, 4)
      THEN Throws("RangeError")
      ELSE Returns([type |-> WS_DATA,
                    connectionId |-> getUint32(buf, 1),
                    opcode |-> getUint8(buf, 5),
                    payload |-> Slice(buf, 10, AsLength(getUint32(buf, 6)))]))

deserializeWSClose(buf) ==
    ExpectType(buf, WS_CLOSE, "WS_CLOSE",
      IF ~InRange(buf, 1, 4) \/ ~InRange(buf, 5, 2) \/ ~InRange(buf, 7, 2)
      THEN Throws("RangeError")
      ELSE LET reasonLen == getUint16(buf, 7)
           IN  IF ~InRange(buf, 9, reasonLen) THEN Throws("RangeError")
               ELSE Returns([type |-> WS_CLOSE,
                             connectionId |-> getUint32(buf, 1),
                             closeCode |-> getUint16(buf, 5),
                             reason |-> TextDecode(Bytes(buf, 9, reasonLen))]))

FrameTypes == {HTTP_REQUEST, HTTP_RESPONSE, WS_CONNECT, WS_DATA, WS_CLOSE}

\* the decoder of one frame type
deserialize(type, buf) ==
    CASE type = HTTP_REQUEST -> deserializeRequest(buf)
      [] type = HTTP_RESPONSE -> deserializeResponse(buf)
      [] type = WS_CONNECT -> deserializeWSConnect(buf)
      [] type = WS_DATA -> deserializeWSData(buf)
      [] type = WS_CLOSE -> deserializeWSClose(buf)

\* nothing was encoded or decoded yet
NoOutcome == [error |-> "", frame |-> NoValue]

InitCodec ==
    [frame |-> NoValue, buffer |-> <<>>, decoder |-> 0, out |-> NoOutcome]

\* ===================================================================
\* Signaling service and relay service.  Their code is not among the
\* sources; both are modelled from the specification (4.B, 4.C, 5): the
\* accept path and the close path of a socket are each one serialised step.
\* ===================================================================

DeviceIds == {"d1", "d2", "d3"}

\* the user a device belongs to: d1 and d3 are devices of one user, d2 of
\* another
UserOf(d) == IF d = "d2" THEN "U2" ELSE "U1"

\* routed frame types, one without and one with the from_device_id field
RoutedTypes == {"offer", "connect-request"}
SessionIds == {"s1", "s2"}
CloudSockIds == 1..MaxCloudSock

\* a socket that has not connected
NoSock == [status |-> "unused", key |-> "", reason |-> ""]

\* signaling accept path of socket s, authenticated for device id d: a prior
\* socket of d is closed with the superseded reason, then the entry replaced
signalAccept(c, s, d) ==
    LET prior == c.endpoints[d]
        c1 == IF prior # 0 /\ c.signal[prior].status = "live"
              THEN [c EXCEPT !.signal[prior].status = "closed",
                             !.signal[prior].reason = "superseded"]
              ELSE c
    IN  [c1 EXCEPT !.endpoints[d] = s,
                   !.signal[s] = [status |-> "live", key |-> d, reason |-> ""]]

\* the socket is closed by its client or by the network
signalSocketClosed(c, s) ==
    [c EXCEPT !.signal[s].status = "closed", !.signal[s].reason = "peer"]

\* a close path that would delete the entry of the device id whatever it holds
signalClosePath_unconditional(c, s) ==
    [c EXCEPT !.endpoints[c.signal[s].key] = 0, !.signal[s].status = "gone"]

\* signaling close path of socket s: delete-if-same
signalClosePath(c, s) ==
    LET d == c.signal[s].key
    IN  [c EXCEPT !.endpoints[d] = IF @ = s THEN 0 ELSE @,
                  !.signal[s].status = "gone"]

\* cloud.route is what the signaling service did with the routed frame of the
\* last step: the socket and device it came from, its type and target, the
\* socket it was delivered to (0: none) with the device ids written into it,
\* and the frame sent back to the sender; NoRoute after every other step
NoRoute ==
    [from |-> 0, sender |-> "", type |-> "", target |-> "", delivered |-> 0,
     sender_device_id |-> "", from_device_id |-> "", reply |-> "", error |-> ""]

Refused(c, s, type, target, error) ==
    [c EXCEPT !.route =
        [from |-> s, sender |-> c.signal[s].key, type |-> type,
         target |-> target, delivered |-> 0, sender_device_id |-> "",
         from_device_id |-> "", reply |-> "error", error |-> error]]

\* a routing that would not look at the owner of the target
signalRoute_anyOwner(c, s, type, target) ==
    LET to == c.endpoints[target]
    IN  IF to = 0 \/ c.signal[to].status # "live"
        THEN Refused(c, s, type, target, "TargetUnreachable")
        ELSE [c EXCEPT !.route =
                 [from |-> s, sender |-> c.signal[s].key, type |-> type,
                  target |-> target, delivered |-> to,
                  sender_device_id |-> c.signal[s].key,
                  from_device_id |-> "", reply |-> "ack", error |-> ""]]

\* signaling routing rule for a frame of a routed type that socket s sends
\* for target: refused for a target of another user and for a target that
\* is not connected, else rewritten, delivered and acknowledged
signalRoute(c, s, type, target) ==
    LET sender == c.signal[s].key
        to == c.endpoints[target]
    IN  IF UserOf(target) # UserOf(sender)
        THEN Refused(c, s, type, target, "NotAuthorized")
        ELSE IF to = 0 \/ c.signal[to].status # "live"
        THEN Refused(c, s, type, target, "TargetUnreachable")
        ELSE [c EXCEPT !.route =
                 [from |-> s, sender |-> sender, type |-> type,
                  target |-> target, delivered |-> to,
                  sender_device_id |-> sender,
                  from_device_id |->
                      IF type = "connect-request" THEN sender ELSE "",
                  reply |-> "ack", error |-> ""]]

\* the endpoints admitted to relay session sid
Admitted(c, sid) ==
    {r \in CloudSockIds : c.relay[r].status = "live" /\ c.relay[r].key = sid}

\* an admission that would not look at the number of endpoints
relayAdmit_unbounded(c, r, sid) ==
    [c EXCEPT !.relay[r] = [status |-> "live", key |-> sid, reason |-> "party"]]

\* relay admission of socket r to session sid: first party, second party,
\* or rejected when two are admitted
relayAdmit(c, r, sid) ==
    LET n == Cardinality(Admitted(c, sid))
    IN  IF n = 0
        THEN [c EXCEPT !.relay[r] =
                 [status |-> "live", key |-> sid, reason |-> "first"]]
        ELSE IF n = 1
        THEN [c EXCEPT !.relay[r] =
                 [status |-> "live", key |-> sid, reason |-> "second"]]
        ELSE [c EXCEPT !.relay[r] =
                 [status |-> "rejected", key |-> sid, reason |-> "SessionFull"]]

\* relay close of endpoint r: the other endpoint of its session is closed
\* too and the session record evicted
relayEndpointClosed(c, r) ==
    LET sid == c.relay[r].key
    IN  [c EXCEPT !.relay = [x \in CloudSockIds |->
            IF x \in Admitted(c, sid)
            THEN [status |-> "closed", key |-> sid,
                  reason |-> IF x = r THEN "peer" ELSE "propagated"]
            ELSE c.relay[x]]]

InitCloud ==
    [endpoints |-> [d \in DeviceIds |-> 0],
     signal |-> [s \in CloudSockIds |-> NoSock],
     relay |-> [r \in CloudSockIds |-> NoSock],
     route |-> NoRoute]

\* ===================================================================
\* Initial state: the hook has mounted and run its effects (lines 89-161)
\* ===================================================================

InitMgr ==
    [state |-> "disconnected", ws |-> 0,
     sock |-> [s \in SockIds |-> "unused"],
     pc |-> "none", pcId |-> 0, dc |-> "none",
     shouldReconnect |-> TRUE, reconnectDelay |-> InitialReconnectDelay,
     connectionTimeout |-> FALSE, reconnectTimers |-> 0, procs |-> {},
     connectAckPromise |-> 0, ackTimers |-> {}, acksDue |-> 0]

InitFb ==
    [phase |-> "idle", sessionId |-> "", ack |-> "none",
     request |-> [type |-> "none", target_device_id |-> "",
                  preferred_transport |-> "", relay_session_id |-> ""]]

InitHook(rtc) ==
    [connectionState |-> "disconnected", connectionMode |-> "webrtc",
     failureCount |-> 0, isRelayFallback |-> FALSE, relayRef |-> 0,
     fb |-> [k \in FbIds |-> InitFb],
     mounted |-> TRUE, rtc |-> rtc]

InitRelay ==
    [created |-> FALSE, state |-> "disconnected", ws |-> "none",
     zombie |-> "none", shouldReconnect |-> TRUE, timers |-> 0,
     awaited |-> FALSE, sessionId |-> "", dialled |-> ""]

InitProxy ==
    [transport |-> 0, nextRequestId |-> 1, pendingRequests |-> {},
     timers |-> {}, promise |-> [id \in ReqIds |-> "none"]]

InitConn ==
    [readyState |-> "none", via |-> 0, closeEvents |-> 0, closeFrames |-> 0,
     messageEvents |-> 0]

InitWsm ==
    [webrtc |-> 0, nextConnectionId |-> 1, connections |-> {},
     conn |-> [id \in ConnIds |-> InitConn],
     active |-> TRUE, connectFrames |-> {}]

NoConstruct ==
    [kind |-> "none", url |-> [signal |-> FALSE, client |-> FALSE],
     pageClient |-> FALSE, id |-> 0]

\* consecutive: failures counted since the last 'connected';
\* construct: the latest call of window.WebSocket and what it returned
\* response: the request_id of the latest HTTP_RESPONSE frame delivered
\* notified: the manager has invoked its onStateChange callback
InitHist ==
    [consecutive |-> 0, construct |-> NoConstruct, response |-> 0,
     frame |-> NoFrame, send |-> NoSend, notified |-> FALSE,
     closeCode |-> NoCloseCodes, calls |-> <<>>, watch |-> FALSE]

\* typeof RTCPeerConnection === 'undefined' is a property of the platform
Init ==
    /\ mgr = InitMgr
    /\ \E rtc \in BOOLEAN : hook = InitHook(rtc)
    /\ relays = [k \in FbIds |-> InitRelay]
    /\ proxy = InitProxy
    /\ wsm = InitWsm
    /\ hist = InitHist
    /\ codec = InitCodec
    /\ cloud = InitCloud

\* ===================================================================
\* Actions: the user, the timers, and the events the browser delivers
\* ===================================================================

SigOnlyProcs(w) == {p \in w.mgr.procs : p.origin = "sigonly"}

\* hook connect() (lines 281-305); the Connect button is rendered only
\* while connectionState is disconnected or failed (ConnectionStatus.tsx)
UserConnect ==
    /\ hook.mounted
    /\ hook.connectionState \in {"disconnected", "failed"}
    /\ HasFreeSock(World)
    /\ ~hook.rtc =>
           Cardinality(StartedFb(World)) + Cardinality(SigOnlyProcs(World))
               < MaxFallback
    /\ IF ~hook.rtc
       THEN Commit(connectSignalingOnly(
                [World EXCEPT !.hook.isRelayFallback = TRUE,
                              !.hook.connectionMode = "relay"]))
       ELSE Commit(connect(World, "user"))

\* hook disconnect() (lines 307-311)
UserDisconnect ==
    /\ hook.mounted
    /\ Commit(disconnect(World))

\* the effect cleanup (lines 255-269)
Unmount ==
    /\ hook.mounted
    /\ LET w1 == disconnect(closeAll(teardownWebSocketIntercept(World)))
           w2 == IF w1.hook.relayRef # 0
                 THEN relayDisconnect(w1, w1.hook.relayRef) ELSE w1
       IN  Commit([w2 EXCEPT !.hook.mounted = FALSE])

ProcOf(s) == CHOOSE p \in mgr.procs : p.sock = s /\ p.phase = "sig"

\* ws.onopen of signaling socket s
SigOpen(s) ==
    /\ mgr.sock[s] = "connecting"
    /\ Commit(afterSignaling([World EXCEPT !.mgr.sock[s] = "open"], ProcOf(s)))

\* ws.onerror then ws.onclose of a socket that never opened
SigError(s) ==
    /\ mgr.sock[s] \in {"connecting", "aborted"}
    /\ Commit(handleReconnect(signalingRejected(
           [World EXCEPT !.mgr.sock[s] = "closed"], ProcOf(s))))

\* ws.onclose of an open signaling socket (server or network)
SigClose(s) ==
    /\ mgr.sock[s] = "open"
    /\ Commit(handleReconnect([World EXCEPT !.mgr.sock[s] = "closed"]))

OfferReady(p) ==
    /\ p \in mgr.procs
    /\ p.phase = "offer"
    /\ Commit(afterOffer(World, p))

\* pc.onconnectionstatechange (lines 123-146); events of the current
\* peer connection only
PcConnected ==
    /\ mgr.pc \in {"connecting", "disconnected"}
    /\ Commit(setState(clearConnectionTimeout(
           [World EXCEPT !.mgr.pc = "connected"]), "connected"))

PcDisconnected ==
    /\ mgr.pc = "connected"
    /\ Commit(setState([World EXCEPT !.mgr.pc = "disconnected"], "disconnected"))

PcFailed ==
    /\ mgr.pc \in {"connecting", "disconnected"}
    /\ Commit(handleReconnect(setState(clearConnectionTimeout(
           [World EXCEPT !.mgr.pc = "failed"]), "failed")))

\* channel.onopen / channel.onclose only log (lines 566-572)
DcOpen ==
    /\ mgr.dc = "connecting"
    /\ mgr.pc = "connected"
    /\ Commit([World EXCEPT !.mgr.dc = "open"])

DcClose ==
    /\ mgr.dc = "open"
    /\ Commit([World EXCEPT !.mgr.dc = "closed"])

\* the setTimeout callback of startConnectionTimeout
Watchdog ==
    /\ mgr.connectionTimeout
    /\ LET w1 == [World EXCEPT !.mgr.connectionTimeout = FALSE]
       IN  IF w1.mgr.state # "connected"
           THEN Commit(setState(w1, "failed"))
           ELSE Commit(w1)

\* the setTimeout callback of handleReconnect, up to connect()'s first await
ReconnectTimer ==
    /\ mgr.reconnectTimers > 0
    /\ hook.rtc => HasFreeSock(World)
    /\ Commit(connect(cleanupWebRTC(
           [World EXCEPT !.mgr.reconnectTimers = @ - 1]), "timer"))

\* ws.onmessage with a connect-ack-received from the host
AckReceived(status) ==
    /\ mgr.acksDue > 0
    /\ \E s \in SockIds : mgr.sock[s] = "open"
    /\ Commit(processConnectAck([World EXCEPT !.mgr.acksDue = @ - 1], status))

AckTimeout(j) ==
    /\ j \in mgr.ackTimers
    /\ Commit(connectAckTimeout(World, j))

RelayOpen(k) ==
    /\ relays[k].ws = "connecting"
    /\ LET w1 == relaySetState([World EXCEPT !.relays[k].ws = "open"],
                               k, "connected")
       IN  IF relays[k].awaited
           THEN Commit(fallbackAfterRelay(w1, k))
           ELSE Commit(w1)

\* the events of a relay socket that fails to open: onerror rejects
\* connect(), whose catch sets failed; onclose sets closed and reconnects
relayOpenFailed(w, k) ==
    LET w1 == relaySetState(w, k, "failed")
        w2 == IF w1.relays[k].awaited /\ w1.hook.fb[k].phase = "awaitRelay"
              THEN fallbackCatch(w1, k)
              ELSE w1
    IN  relayHandleReconnect(relaySetState(w2, k, "closed"), k)

RelayError(k) ==
    /\ relays[k].ws = "connecting"
    /\ Commit(relayOpenFailed([World EXCEPT !.relays[k].ws = "closed"], k))

RelayClose(k) ==
    /\ relays[k].ws = "open"
    /\ Commit(relayHandleReconnect(relaySetState(
           [World EXCEPT !.relays[k].ws = "closed"], k, "closed"), k))

RelayTimer(k) ==
    /\ relays[k].timers > 0
    /\ Commit(relayConnect([World EXCEPT !.relays[k].timers = @ - 1], k, FALSE))

\* the events of the socket that RelayClient.disconnect() closed
RelayZombie(k) ==
    /\ relays[k].zombie # "none"
    /\ LET w1 == [World EXCEPT !.relays[k].zombie = "none"]
       IN  IF relays[k].zombie = "connecting"
           THEN Commit(relayOpenFailed(w1, k))
           ELSE Commit(relayHandleReconnect(relaySetState(w1, k, "closed"), k))

\* a binary frame can arrive while a data channel or relay socket is open
Receiving ==
    \/ mgr.dc = "open"
    \/ \E k \in FbIds : relays[k].ws = "open"

Fetch(throws) ==
    /\ hook.mounted
    /\ proxy.nextRequestId <= MaxReq
    /\ throws => (proxy.transport = 0 /\ transportIsOpen(World))
    /\ Commit(fetch(World, throws))

HttpResponseFrame(id) ==
    /\ Receiving
    /\ Commit(handleResponse([World EXCEPT !.hist.response = id], id))

\* clearPending() called by a user of the HTTPProxy class (the hook never
\* calls it)
ClearPending ==
    /\ hook.mounted
    /\ Commit(clearPending(World))

RequestTimeout(id) ==
    /\ id \in proxy.timers
    /\ Commit(requestTimeout(World, id))

\* new WebSocket(url) by the page while the intercept is installed
WsConstruct(url, pageClient) ==
    /\ hook.mounted
    /\ (shouldProxyWebSocket(url, pageClient) /\ wsm.active) =>
           wsm.nextConnectionId <= MaxConn
    /\ Commit(ProxiedWebSocketConstructor(World, url, pageClient))

\* the page, loaded with ?client=, opens a WebSocket to the local server
LocalServerUrl == [signal |-> FALSE, client |-> FALSE]

WsCreate == WsConstruct(LocalServerUrl, TRUE)

WsAppClose(id) ==
    /\ wsm.conn[id].readyState # "none"
    /\ Commit(pwsClose(World, id, 1000))

WsCloseFrame(id) ==
    /\ Receiving
    /\ Commit(handleCloseFrame(World, id))

WsSend(id) ==
    /\ wsm.conn[id].readyState # "none"
    /\ Commit(pwsSend(World, id))

\* handleConnectionOpened(id) called by a user of the WSProxyManager class
\* (nothing in the repository calls it)
WsOpened(id) ==
    /\ hook.mounted
    /\ wsm.conn[id].closeEvents < MaxClose
    /\ Commit(handleConnectionOpened(World, id))

\* a binary frame arrives on the open data channel or relay socket
OnMessage(byte, id) ==
    /\ Receiving
    /\ (byte = WS_DATA /\ id \in wsm.connections) =>
           wsm.conn[id].messageEvents < MaxMsg
    /\ Commit(onMessage(World, byte, id))

\* Spec: the connection manager, the fallback and the relay client under
\* every event of their environment; no request or sub-connection is made.
Next ==
    \/ UserConnect
    \/ UserDisconnect
    \/ Unmount
    \/ \E s \in SockIds : SigOpen(s)
    \/ \E s \in SockIds : SigError(s)
    \/ \E s \in SockIds : SigClose(s)
    \/ \E p \in mgr.procs : OfferReady(p)
    \/ PcConnected
    \/ PcDisconnected
    \/ PcFailed
    \/ DcOpen
    \/ DcClose
    \/ Watchdog
    \/ ReconnectTimer
    \/ \E status \in AckStatuses : AckReceived(status)
    \/ \E j \in FbIds : AckTimeout(j)
    \/ \E k \in FbIds : RelayOpen(k)
    \/ \E k \in FbIds : RelayError(k)
    \/ \E k \in FbIds : RelayClose(k)
    \/ \E k \in FbIds : RelayTimer(k)
    \/ \E k \in FbIds : RelayZombie(k)

Spec == Init /\ [][Next]_vars

\* NotifySpec: the manager under every event that makes it call setState
\* (connect and its retries, the peer connection's state changes, the
\* watchdog, the connect-ack and its timeout, disconnect), with the calls of
\* each step watched; the relay client is left to Spec.
NotifyInit ==
    /\ mgr = InitMgr
    /\ \E rtc \in BOOLEAN : hook = InitHook(rtc)
    /\ relays = [k \in FbIds |-> InitRelay]
    /\ proxy = InitProxy
    /\ wsm = InitWsm
    /\ hist = [InitHist EXCEPT !.watch = TRUE]
    /\ codec = InitCodec
    /\ cloud = InitCloud

NotifyNext ==
    \/ UserConnect
    \/ UserDisconnect
    \/ \E s \in SockIds : SigOpen(s)
    \/ \E s \in SockIds : SigError(s)
    \/ \E s \in SockIds : SigClose(s)
    \/ \E p \in mgr.procs : OfferReady(p)
    \/ PcConnected
    \/ PcDisconnected
    \/ PcFailed
    \/ Watchdog
    \/ ReconnectTimer
    \/ \E status \in AckStatuses : AckReceived(status)
    \/ \E j \in FbIds : AckTimeout(j)

NotifySpec == NotifyInit /\ [][NotifyNext]_vars

\* RetrySpec: the manager from the state it is in after two failed dials
\* (connect(), the signaling socket fails, the reconnect timer runs
\* connect(), the socket fails again): state failed, two failures counted,
\* the delay doubled twice, the timer of the second failure pending, the
\* peer connection and data channel of the second dial still referenced.
\* The two sockets are closed and take part in nothing more, so they are
\* not counted among the sockets of the run (this.ws, which references the
\* second, is read for its readyState only).
RetryInit ==
    /\ mgr = [InitMgr EXCEPT !.state = "failed", !.reconnectTimers = 1,
                             !.reconnectDelay = 4 * InitialReconnectDelay,
                             !.pc = "new", !.dc = "connecting"]
    /\ hook = [InitHook(TRUE) EXCEPT !.connectionState = "failed",
                                     !.failureCount = 2]
    /\ relays = [k \in FbIds |-> InitRelay]
    /\ proxy = InitProxy
    /\ wsm = InitWsm
    /\ hist = [InitHist EXCEPT !.consecutive = 2, !.notified = TRUE]
    /\ codec = InitCodec
    /\ cloud = InitCloud

RetrySpec == RetryInit /\ [][NotifyNext]_vars

\* HttpSpec and WsSpec: the HTTP proxy, respectively the WebSocket proxy,
\* above the transports.  The transports go up and down through the same
\* manager, hook and relay client: a P2P connection that is established and
\* whose data channel opens and closes, the relay reached on a platform
\* without RTCPeerConnection, the user connecting and disconnecting, and the
\* unmount.  Failed dials, retries and the fallback after three failures are
\* left to Spec.
HttpNext ==
    \/ UserConnect
    \/ UserDisconnect
    \/ Unmount
    \/ \E s \in SockIds : SigOpen(s)
    \/ \E p \in mgr.procs : OfferReady(p)
    \/ PcConnected
    \/ DcOpen
    \/ DcClose
    \/ \E status \in AckStatuses : AckReceived(status)
    \/ \E k \in FbIds : RelayOpen(k)
    \/ \E k \in FbIds : RelayClose(k)
    \/ \E throws \in BOOLEAN : Fetch(throws)
    \/ \E id \in ReqIds : HttpResponseFrame(id)
    \/ \E id \in ReqIds : RequestTimeout(id)

HttpSpec == Init /\ [][HttpNext]_vars

\* ProxyApiSpec: the whole public interface of HTTPProxy in use,
\* clearPending() included, above one connection (P2P, or relay without
\* RTCPeerConnection) that comes up, goes down and is unmounted; the user
\* does not disconnect and connect again.
ProxyApiNext ==
    \/ UserConnect
    \/ Unmount
    \/ \E s \in SockIds : SigOpen(s)
    \/ \E p \in mgr.procs : OfferReady(p)
    \/ PcConnected
    \/ DcOpen
    \/ DcClose
    \/ \E status \in AckStatuses : AckReceived(status)
    \/ \E k \in FbIds : RelayOpen(k)
    \/ \E k \in FbIds : RelayClose(k)
    \/ \E throws \in BOOLEAN : Fetch(throws)
    \/ \E id \in ReqIds : HttpResponseFrame(id)
    \/ \E id \in ReqIds : RequestTimeout(id)
    \/ ClearPending

ProxyApiSpec == Init /\ [][ProxyApiNext]_vars

WsNext ==
    \/ UserConnect
    \/ UserDisconnect
    \/ Unmount
    \/ \E s \in SockIds : SigOpen(s)
    \/ \E p \in mgr.procs : OfferReady(p)
    \/ PcConnected
    \/ DcOpen
    \/ DcClose
    \/ \E status \in AckStatuses : AckReceived(status)
    \/ \E k \in FbIds : RelayOpen(k)
    \/ \E k \in FbIds : RelayClose(k)
    \/ WsCreate
    \/ \E id \in ConnIds : WsAppClose(id)
    \/ \E id \in ConnIds : WsCloseFrame(id)

WsSpec == Init /\ [][WsNext]_vars

\* ------------------------------------------------------------ codec
\* a frame value is encoded (one encoding per run)
Serialize(frame) ==
    /\ codec = InitCodec
    /\ codec' = [frame |-> frame, buffer |-> serialize(frame), decoder |-> 0,
                 out |-> NoOutcome]
    /\ UNCHANGED <<endpoint, cloud>>

\* a buffer arrives that is the encoding of a frame but for its first byte
ReceiveBuffer(byte) ==
    /\ codec.frame # NoValue
    /\ byte # codec.frame.type
    /\ codec' = [frame |-> NoValue,
                 buffer |-> <<byte>> \o Tail(codec.buffer), decoder |-> 0,
                 out |-> NoOutcome]
    /\ UNCHANGED <<endpoint, cloud>>

\* the decoder of one frame type is called with the buffer
Deserialize(type) ==
    /\ codec.buffer # <<>>
    /\ codec.decoder = 0
    /\ codec' = [codec EXCEPT !.decoder = type,
                              !.out = deserialize(type, codec.buffer)]
    /\ UNCHANGED <<endpoint, cloud>>

\* CodecSpec: every sample frame value encoded, and every buffer so made,
\* also with another first byte, given to every decoder.
CodecNext ==
    \/ \E frame \in FrameValues : Serialize(frame)
    \/ \E byte \in FirstBytes : ReceiveBuffer(byte)
    \/ \E type \in FrameTypes : Deserialize(type)

\* the codec reads nothing of the platform: one initial state is enough
CodecInit == Init /\ hook.rtc

CodecSpec == CodecInit /\ [][CodecNext]_vars

\* WidthSpec: response and close frames whose status or close code is any
\* number the TypeScript type admits, also one that needs more than 16 bits,
\* are encoded and the buffers given to every decoder.
WideCodes == {1000, 65535, 65536, 65536 + 1000}

WideFrames ==
    [type : {HTTP_RESPONSE}, requestId : Ids32, statusCode : WideCodes,
     headers : HeaderValues, body : Strings]
        \cup [type : {WS_CLOSE}, connectionId : Ids32, closeCode : WideCodes,
              reason : Strings]

WidthNext ==
    \/ \E frame \in WideFrames : Serialize(frame)
    \/ \E type \in FrameTypes : Deserialize(type)

WidthSpec == CodecInit /\ [][WidthNext]_vars

\* ------------------------------------------------- signaling service
SignalAccept(s, d) ==
    /\ cloud.signal[s].status = "unused"
    /\ cloud' = [signalAccept(cloud, s, d) EXCEPT !.route = NoRoute]
    /\ UNCHANGED <<endpoint, codec>>

SignalSocketClosed(s) ==
    /\ cloud.signal[s].status = "live"
    /\ cloud' = [signalSocketClosed(cloud, s) EXCEPT !.route = NoRoute]
    /\ UNCHANGED <<endpoint, codec>>

SignalClosePath(s) ==
    /\ cloud.signal[s].status = "closed"
    /\ cloud' = [signalClosePath(cloud, s) EXCEPT !.route = NoRoute]
    /\ UNCHANGED <<endpoint, codec>>

\* SignalingSpec: sockets connecting for two device ids, closing, and their
\* close paths running, in every order.
SignalingNext ==
    \/ \E s \in CloudSockIds, d \in DeviceIds : SignalAccept(s, d)
    \/ \E s \in CloudSockIds : SignalSocketClosed(s)
    \/ \E s \in CloudSockIds : SignalClosePath(s)

SignalingSpec == Init /\ [][SignalingNext]_vars

\* a client sends a frame of a routed type on its live signaling socket
SignalRoute(s, type, target) ==
    /\ cloud.signal[s].status = "live"
    /\ cloud' = signalRoute(cloud, s, type, target)
    /\ UNCHANGED <<endpoint, codec>>

\* RoutingSpec: the sockets of SignalingSpec, each sending routed frames for
\* every device id while it is live.
RoutingNext ==
    \/ \E s \in CloudSockIds, d \in DeviceIds : SignalAccept(s, d)
    \/ \E s \in CloudSockIds : SignalSocketClosed(s)
    \/ \E s \in CloudSockIds : SignalClosePath(s)
    \/ \E s \in CloudSockIds, type \in RoutedTypes, target \in DeviceIds :
           SignalRoute(s, type, target)

RoutingSpec == Init /\ [][RoutingNext]_vars

\* ----------------------------------------------------- relay service
RelayAdmit(r, sid) ==
    /\ cloud.relay[r].status = "unused"
    /\ cloud' = relayAdmit(cloud, r, sid)
    /\ UNCHANGED <<endpoint, codec>>

RelayEndpointClosed(r) ==
    /\ cloud.relay[r].status = "live"
    /\ cloud' = relayEndpointClosed(cloud, r)
    /\ UNCHANGED <<endpoint, codec>>

\* RelaySpec: sockets connecting to two session ids and closing, in every
\* order.
RelayNext ==
    \/ \E r \in CloudSockIds, sid \in SessionIds : RelayAdmit(r, sid)
    \/ \E r \in CloudSockIds : RelayEndpointClosed(r)

RelaySpec == Init /\ [][RelayNext]_vars

\* DispatchSpec: requests and sub-connections in use together while a
\* connection (P2P, or relay without RTCPeerConnection) comes up and stays
\* up, with frames of every first byte arriving for every id.
FrameIds == 1..(IF MaxReq > MaxConn THEN MaxReq ELSE MaxConn)

DispatchNext ==
    \/ UserConnect
    \/ \E s \in SockIds : SigOpen(s)
    \/ \E p \in mgr.procs : OfferReady(p)
    \/ PcConnected
    \/ DcOpen
    \/ \E status \in AckStatuses : AckReceived(status)
    \/ \E k \in FbIds : RelayOpen(k)
    \/ Fetch(FALSE)
    \/ WsCreate
    \/ \E byte \in FirstBytes, id \in FrameIds : OnMessage(byte, id)

DispatchSpec == Init /\ [][DispatchNext]_vars

\* DispatchLiveSpec: DispatchSpec with the transport delivering what the host
\* sends: the message handler of the open channel (lines 121-144, 204-220)
\* runs for every frame that arrives, and a host that has accepted a
\* sub-connection goes on sending frames of every kind but WS_CLOSE.
DispatchLiveSpec ==
    /\ DispatchSpec
    /\ \A byte \in FirstBytes \ {WS_CLOSE}, id \in FrameIds :
           WF_vars(OnMessage(byte, id))

\* WsApiSpec: the whole public interface of WSProxyManager and of its
\* ProxiedWebSocket objects in use, above one connection (P2P, or relay
\* without RTCPeerConnection) that comes up, goes down and is unmounted.
WsApiNext ==
    \/ UserConnect
    \/ Unmount
    \/ \E s \in SockIds : SigOpen(s)
    \/ \E p \in mgr.procs : OfferReady(p)
    \/ PcConnected
    \/ DcOpen
    \/ DcClose
    \/ \E status \in AckStatuses : AckReceived(status)
    \/ \E k \in FbIds : RelayOpen(k)
    \/ \E k \in FbIds : RelayClose(k)
    \/ WsCreate
    \/ \E id \in ConnIds : WsSend(id)
    \/ \E id \in ConnIds : WsAppClose(id)
    \/ \E id \in ConnIds : WsOpened(id)
    \/ \E byte \in {WS_DATA, WS_CLOSE}, id \in ConnIds : OnMessage(byte, id)

WsApiSpec == Init /\ [][WsApiNext]_vars

\* the hook's sendData (useWebRTC.ts lines 313-318): managerRef is set when
\* the hook mounts and never cleared, so the call reaches the manager
SendData ==
    /\ Commit(sendData(World))

\* SendSpec: the manager's sendData called at any moment of the life of a
\* P2P connection: before connect(), while the channel is connecting, open
\* and closed, after a failure and after disconnect().
SendNext ==
    \/ UserConnect
    \/ UserDisconnect
    \/ \E s \in SockIds : SigOpen(s)
    \/ \E p \in mgr.procs : OfferReady(p)
    \/ PcConnected
    \/ PcDisconnected
    \/ PcFailed
    \/ DcOpen
    \/ DcClose
    \/ SendData

SendSpec == Init /\ [][SendNext]_vars

\* InterceptSpec: the page constructing WebSockets for every kind of URL,
\* with and without the client parameter of the page, above one connection
\* (P2P, or relay without RTCPeerConnection) that comes up, goes down and is
\* unmounted; the user does not disconnect and connect again.
InterceptNext ==
    \/ UserConnect
    \/ Unmount
    \/ \E s \in SockIds : SigOpen(s)
    \/ \E p \in mgr.procs : OfferReady(p)
    \/ PcConnected
    \/ DcOpen
    \/ DcClose
    \/ \E status \in AckStatuses : AckReceived(status)
    \/ \E k \in FbIds : RelayOpen(k)
    \/ \E k \in FbIds : RelayClose(k)
    \/ \E url \in Urls, pageClient \in BOOLEAN : WsConstruct(url, pageClient)
    \/ \E id \in ConnIds : WsAppClose(id)
    \/ \E id \in ConnIds : WsCloseFrame(id)

InterceptSpec == Init /\ [][InterceptNext]_vars

\* ===================================================================
\* Properties
\* ===================================================================

TransportUp == transportIsOpen(World)

\* the proxy's active transport stops being open, or is replaced
TransportDown ==
    TransportUp /\ (~TransportUp' \/ proxy'.transport # proxy.transport)

\* C1: whenever the active transport of the HTTP proxy goes down while
\* requests are pending, each of them is rejected with 'Connection closed'
\* in that step and the pending table becomes empty.
C1_PendingRejectedOnTransportDown ==
    [][(TransportDown /\ proxy.pendingRequests # {}) =>
          /\ proxy'.pendingRequests = {}
          /\ \A id \in proxy.pendingRequests :
                 proxy.promise[id] = "pending" =>
                     proxy'.promise[id] = "Connection closed"]_vars

\* C2: once the promise of a fetch has settled, for whatever reason, the
\* pending table has no entry for its request id.
C2_SettledNotPending ==
    \A id \in ReqIds :
        proxy.promise[id] \notin {"none", "pending"} =>
            id \notin proxy.pendingRequests

WsTransportUp == viaDataChannelState(World, wsm.webrtc) = "open"

WsTransportDown ==
    WsTransportUp /\ (~WsTransportUp' \/ wsm'.webrtc # wsm.webrtc)

\* C3: when the transport of the WebSocket proxy goes down or is replaced,
\* every sub-connection that is not CLOSED becomes CLOSED, with its close
\* event, and leaves the sub-connection table.
C3_SubConnectionsClosedOnTransportDown ==
    [][WsTransportDown =>
          \A id \in ConnIds :
              wsm.conn[id].readyState \in {"CONNECTING", "OPEN", "CLOSING"} =>
                  /\ wsm'.conn[id].readyState = "CLOSED"
                  /\ wsm'.conn[id].closeEvents = wsm.conn[id].closeEvents + 1
                  /\ id \notin wsm'.connections]_vars

\* a connect-request leaves on the signaling socket in this step
RequestSent ==
    \E k \in FbIds :
        /\ hook.fb[k].phase = "idle"
        /\ hook'.fb[k].phase = "awaitAck"
        /\ hook'.fb[k].request.preferred_transport = "relay"

RequestsSoFar == {k \in FbIds : hook.fb[k].request.type # "none"}

\* the counter of P2P failures goes from 2 to 3
ReachesThreshold ==
    /\ hook.rtc
    /\ hook.failureCount = FallbackThreshold - 1
    /\ hook'.failureCount = FallbackThreshold

\* without RTCPeerConnection: the signaling socket that the hook's connect()
\* awaits (connectSignalingOnly) opens
SignalingOnlyOpens ==
    /\ ~hook.rtc
    /\ \E p \in mgr.procs :
           /\ p.origin = "sigonly"
           /\ mgr.sock[p.sock] = "connecting"
           /\ mgr'.sock[p.sock] = "open"

\* C4: the connect-request for relay is sent exactly when the failure
\* counter reaches 3 or, without RTCPeerConnection, when connect() has its
\* signaling socket; and it is sent at most once.
C4_FallbackOnceAtThreshold ==
    [][/\ RequestSent <=> (ReachesThreshold \/ SignalingOnlyOpens)
       /\ RequestSent => RequestsSoFar = {}]_vars

RelayRequest ==
    [type |-> "connect-request", target_device_id |-> TargetDeviceId,
     preferred_transport |-> "relay",
     relay_session_id |-> generateSessionId(BrowserDeviceId, TargetDeviceId)]

\* C5: a relay client exists (its socket was dialled) only after a
\* connect-request for relay with the session id of the two devices was
\* sent, and it is dialled with that session id; the client is created and
\* dialled only in a step in which an ack with status connecting or
\* connected resolves a wait whose 30 s timer has not fired.
C5_RelayDialOnlyAfterAck ==
    /\ [](\A k \in FbIds :
             relays[k].created =>
                 /\ hook.fb[k].request = RelayRequest
                 /\ relays[k].dialled = hook.fb[k].request.relay_session_id)
    /\ [][\A k \in FbIds :
             (~relays[k].created /\ relays'[k].created) =>
                 /\ mgr.connectAckPromise = k
                 /\ k \in mgr.ackTimers
                 /\ mgr'.acksDue = mgr.acksDue - 1
                 /\ hook'.fb[k].ack \in {"connecting", "connected"}
                 /\ relays'[k].ws = "connecting"]_vars

C5_Witness ==
    \E k \in FbIds :
        /\ relays[k].created
        /\ relays[k].ws = "connecting"
        /\ hook.fb[k].ack = "connecting"

\* the wait for the connect-ack of call k ends in a rejection: the 30 s
\* timer fired or the ack carried status failed
AckWaitFails(k) ==
    /\ hook.fb[k].phase = "awaitAck"
    /\ hook'.fb[k].phase = "rejected"

\* C6: when the connect-ack wait times out or the ack has status failed,
\* the connection state becomes closed and no relay socket is opened.
C6_ClosedOnAckFailure ==
    [][\A k \in FbIds :
          AckWaitFails(k) =>
              /\ hook'.connectionState = "closed"
              /\ ~relays'[k].created]_vars

\* C7: while the manager is failed with fewer than 3 counted failures, the
\* user has not disconnected and no connect() is in progress, a retry is
\* scheduled.
C7_RetryScheduledWhenFailed ==
    (/\ hook.rtc
     /\ mgr.state = "failed"
     /\ hook.failureCount < FallbackThreshold
     /\ mgr.shouldReconnect
     /\ mgr.procs = {})
        => mgr.reconnectTimers > 0

\* C8: each scheduled retry doubles the delay (up to 60 s), and the delay
\* goes back to 2 s only when a P2P connection is established.
C8_BackoffResetOnlyWhenEstablished ==
    [][/\ mgr'.reconnectTimers > mgr.reconnectTimers =>
              mgr'.reconnectDelay = Min(2 * mgr.reconnectDelay, MaxReconnectDelay)
       /\ mgr'.reconnectDelay < mgr.reconnectDelay =>
              (mgr'.reconnectDelay = InitialReconnectDelay
               /\ mgr.pc = "connected")]_vars

\* C9: when the fallback is triggered by the failure counter, the last 3
\* counted failures happened without a P2P connection in between.
C9_ThresholdCountsConsecutive ==
    [][(hook.rtc /\ ~hook.isRelayFallback /\ hook'.isRelayFallback) =>
          hist'.consecutive >= FallbackThreshold]_vars

\* C10: when the data channel closes while the manager is connected, the
\* user has not disconnected and the fallback has not begun, the manager
\* becomes failed and the failure is counted.
C10_ChannelCloseCounts ==
    [][(/\ mgr.dc = "open"
        /\ mgr'.dc = "closed"
        /\ mgr.state = "connected"
        /\ mgr.shouldReconnect
        /\ ~hook.isRelayFallback) =>
          /\ mgr'.state = "failed"
          /\ hook'.failureCount = hook.failureCount + 1]_vars

\* the callback of a reconnect timer runs in this step (cleanupWebRTC)
RetryFires == mgr'.reconnectTimers < mgr.reconnectTimers

\* the third failure is counted in this step (stopReconnection)
FallbackBegins == hook.rtc /\ ~hook.isRelayFallback /\ hook'.isRelayFallback

\* C11: neither the retry path nor the fallback path closes a signaling
\* socket: every signaling socket that is open before a reconnect timer
\* fires, or before the third failure stops reconnection, is open after it.
C11_SignalingKeptOpen ==
    [][(RetryFires \/ FallbackBegins) =>
          \A s \in SockIds : mgr.sock[s] = "open" => mgr'.sock[s] = "open"]_vars

\* a retry has run while the earlier signaling socket was open, and the
\* socket is still open
C11_Witness ==
    \E s \in SockIds :
        /\ mgr.sock[s] = "open"
        /\ mgr.ws \notin {0, s}
        /\ \E p \in mgr.procs : p.origin = "timer"

\* disconnect() was the last call on the manager: it alone sets ws to null,
\* and every connect() sets ws again
AfterDisconnect ==
    /\ mgr.ws = 0
    /\ ~mgr.shouldReconnect
    /\ mgr.state = "disconnected"

\* the hook calls connect() or connectSignalingOnly() in this step
ConnectCalled ==
    \E p \in mgr'.procs \ mgr.procs : p.origin \in {"user", "sigonly"}

\* C12: after disconnect() and until connect() is called again, the state
\* stays disconnected and the manager creates no signaling socket and no
\* peer connection and starts no connect().
C12_DisconnectIsFinal ==
    [][(AfterDisconnect /\ ~ConnectCalled) =>
          /\ mgr'.state = "disconnected"
          /\ \A s \in SockIds : mgr.sock[s] = "unused" => mgr'.sock[s] = "unused"
          /\ mgr'.pc = "none"
          /\ mgr'.procs \subseteq mgr.procs]_vars

\* C13: after the disconnect, and until the next connect(), no transport is
\* open or being dialled: neither the data channel nor any relay socket.
C13_NoTransportAfterDisconnect ==
    AfterDisconnect =>
        /\ mgr.dc # "open"
        /\ \A k \in FbIds : relays[k].ws \notin {"connecting", "open"}

\* C14 as stated: the relay client dials only once, when fallbackToRelay
\* creates it; it never dials again.
C14_RelayNeverRedials ==
    [][\A k \in FbIds :
          (relays[k].ws # "connecting" /\ relays'[k].ws = "connecting") =>
              ~relays[k].created]_vars

\* C14 amended: when the relay socket closes or fails to open and
\* disconnect() was not called on the client, the client schedules a
\* re-dial; a dial after the first happens only when such a timer fires, and
\* uses the same session id.
C14_RelayRedialsOnTimer ==
    [][\A k \in FbIds :
          /\ (/\ relays[k].ws \in {"connecting", "open"}
              /\ relays'[k].ws = "closed"
              /\ relays[k].shouldReconnect) =>
                 relays'[k].timers = relays[k].timers + 1
          /\ (/\ relays[k].created
              /\ relays[k].ws # "connecting"
              /\ relays'[k].ws = "connecting") =>
                 /\ relays'[k].timers = relays[k].timers - 1
                 /\ relays'[k].dialled = relays[k].dialled]_vars

\* the relay client has dialled again from its reconnect timer
C14_Witness ==
    \E k \in FbIds :
        /\ relays[k].created
        /\ relays[k].ws = "connecting"
        /\ ~relays[k].awaited

\* window.WebSocket is called in this step
Constructs == hist'.construct # hist.construct

\* C15: constructing a WebSocket for a URL whose path contains /signal
\* yields a native WebSocket and leaves the WebSocket proxy untouched (no
\* sub-connection, no WS_CONNECT frame), whatever the client parameters.
C15_SignalingNeverProxied ==
    [][(Constructs /\ hist'.construct.url.signal) =>
          /\ hist'.construct.kind = "native"
          /\ wsm' = wsm]_vars

\* a /signal URL carrying ?client= was constructed natively on a page that
\* carries ?client= too, while the proxy manager was active
C15_Witness ==
    /\ hist.construct.url = [signal |-> TRUE, client |-> TRUE]
    /\ hist.construct.pageClient
    /\ hist.construct.kind = "native"
    /\ wsm.active

ProxiedFresh(id) ==
    /\ hist'.construct.kind = "proxied"
    /\ hist'.construct.id = id
    /\ id = wsm.nextConnectionId
    /\ id \notin wsm.connections
    /\ id \notin wsm.connectFrames
    /\ wsm.conn[id].readyState = "none"
    /\ id \in wsm'.connections

\* C16 as stated: with a proxy manager active (and its transport open),
\* constructing a WebSocket for a URL whose path has no /signal creates a
\* sub-connection with a fresh id and sends its WS_CONNECT frame.
C16_OtherUrlsProxied ==
    [][(/\ Constructs
        /\ ~hist'.construct.url.signal
        /\ wsm.active
        /\ WsTransportUp) =>
          \E id \in ConnIds :
              /\ ProxiedFresh(id)
              /\ id \in wsm'.connectFrames]_vars

\* C16 amended: with a proxy manager active, constructing a WebSocket for a
\* URL whose path has no /signal creates a sub-connection with a fresh id if
\* the URL or the page carries the client parameter, and a native WebSocket
\* otherwise; the WS_CONNECT frame of the new sub-connection is sent if its
\* transport is open, else the sub-connection is CLOSED at once.
C16_ClientUrlsProxied ==
    [][(Constructs /\ ~hist'.construct.url.signal /\ wsm.active) =>
          IF hist'.construct.url.client \/ hist'.construct.pageClient
          THEN \E id \in ConnIds :
                   /\ ProxiedFresh(id)
                   /\ IF WsTransportUp
                      THEN /\ wsm'.connectFrames = wsm.connectFrames \cup {id}
                           /\ wsm'.conn[id].readyState = "CONNECTING"
                      ELSE /\ wsm'.connectFrames = wsm.connectFrames
                           /\ wsm'.conn[id].readyState = "CLOSED"
          ELSE hist'.construct.kind = "native" /\ wsm' = wsm]_vars

C16_Witness ==
    /\ hist.construct.kind = "proxied"
    /\ ~hist.construct.url.client
    /\ hist.construct.id \in wsm.connectFrames
    /\ wsm.conn[hist.construct.id].readyState = "CONNECTING"

\* C17: request ids are 1, 2, 3, ... in the order of the fetch calls: the
\* counter starts at 1 and never goes down, each fetch takes the counter's
\* value and advances it by one, whether or not it fails at once, and only
\* ids already handed out are in the pending table.
C17_RequestIdsIncrease ==
    /\ proxy.nextRequestId = 1
    /\ [](/\ \A id \in ReqIds :
                proxy.promise[id] # "none" <=> id < proxy.nextRequestId
          /\ \A id \in proxy.pendingRequests : id < proxy.nextRequestId)
    /\ [][/\ proxy'.nextRequestId \in
                {proxy.nextRequestId, proxy.nextRequestId + 1}
          /\ \A id \in ReqIds :
                (proxy.promise[id] = "none" /\ proxy'.promise[id] # "none") =>
                    /\ id = proxy.nextRequestId
                    /\ proxy'.nextRequestId = id + 1
                    /\ id \notin proxy.pendingRequests]_vars

\* request 1 failed at once, the transport was then replaced, and request 2
\* is pending
C17_Witness ==
    /\ proxy.promise[1] = "Transport not open"
    /\ proxy.transport # 0
    /\ 2 \in proxy.pendingRequests
    /\ proxy.promise[2] = "pending"

C19_UnknownResponseDropped ==
    [][(hist'.response # hist.response
        /\ hist'.response \notin proxy.pendingRequests) =>
          proxy' = proxy]_vars

\* the response to request 1 came after its timeout and was dropped, while
\* request 2 stays pending with its timer
C19_Witness ==
    /\ hist.response = 1
    /\ proxy.promise[1] = "Request timeout"
    /\ proxy.promise[2] = "pending"
    /\ 2 \in proxy.pendingRequests
    /\ 2 \in proxy.timers

C21_FrameRoutedByFirstByte ==
    [][hist'.frame # NoFrame =>
        LET byte == hist'.frame.byte
            id == hist'.frame.id
        IN  /\ mgr' = mgr /\ relays' = relays /\ hook' = hook
            /\ byte = HTTP_RESPONSE =>
                  /\ wsm' = wsm
                  /\ id \in proxy.pendingRequests =>
                        /\ proxy'.pendingRequests = proxy.pendingRequests \ {id}
                        /\ proxy.promise[id] = "pending" =>
                              proxy'.promise[id] = "resolved"
            /\ byte = WS_DATA =>
                  /\ proxy' = proxy
                  /\ id \in wsm.connections =>
                        /\ wsm'.conn[id].messageEvents =
                               wsm.conn[id].messageEvents + 1
                        /\ wsm'.connections = wsm.connections
            /\ byte = WS_CLOSE =>
                  /\ proxy' = proxy
                  /\ id \in wsm.connections =>
                        /\ wsm'.conn[id].readyState = "CLOSED"
                        /\ wsm'.connections = wsm.connections \ {id}
            /\ byte \notin {HTTP_RESPONSE, WS_DATA, WS_CLOSE} =>
                  /\ proxy' = proxy
                  /\ wsm' = wsm]_vars

\* over the relay socket a WS_CLOSE frame has closed and removed the
\* sub-connection while a request is still pending
C21_Witness ==
    /\ hist.frame = [byte |-> WS_CLOSE, id |-> 1]
    /\ hook.connectionMode = "relay"
    /\ wsm.conn[1].readyState = "CLOSED"
    /\ 1 \notin wsm.connections
    /\ proxy.pendingRequests = {1}
    /\ proxy.promise[1] = "pending"

ReadyStateRank(readyState) ==
    CASE readyState = "CONNECTING" -> 0
      [] readyState = "OPEN" -> 1
      [] readyState = "CLOSING" -> 2
      [] readyState = "CLOSED" -> 3

\* C22: the readyState of a sub-connection only moves forward along
\* CONNECTING, OPEN, CLOSING, CLOSED, whatever public operation is called;
\* once CLOSED it is never OPEN again.
C22_ReadyStateForward ==
    [][\A id \in ConnIds :
          wsm.conn[id].readyState # "none" =>
              ReadyStateRank(wsm'.conn[id].readyState) >=
                  ReadyStateRank(wsm.conn[id].readyState)]_vars

\* C23: close(code, reason) sends one WS_CLOSE frame and leaves the
\* sub-connection in CLOSING, no close event fired; a CLOSING sub-connection
\* becomes CLOSED, and its close event fires, only in the step that receives
\* the WS_CLOSE frame of its connection id.
C23_ClosedOnlyByCloseFrame ==
    [][\A id \in ConnIds :
          /\ wsm'.conn[id].closeFrames # wsm.conn[id].closeFrames =>
                /\ wsm'.conn[id].closeFrames = wsm.conn[id].closeFrames + 1
                /\ wsm'.conn[id].readyState = "CLOSING"
                /\ wsm'.conn[id].closeEvents = wsm.conn[id].closeEvents
          /\ (/\ wsm.conn[id].readyState = "CLOSING"
              /\ wsm'.conn[id].readyState = "CLOSED") =>
                hist'.frame = [byte |-> WS_CLOSE, id |-> id]]_vars

\* C24: for each of the five frame types and every valid frame value,
\* decoding the bytes produced by encoding it returns the same value.
C24_RoundTrip ==
    (codec.frame # NoValue /\ codec.decoder = codec.frame.type) =>
        codec.out = Returns(codec.frame)

\* a u16-prefixed, a u32-prefixed field lies at offset off of the buffer
FieldAt16(buf, off, bytes) ==
    /\ InRange(buf, off, 2 + Len(bytes))
    /\ getUint16(buf, off) = Len(bytes)
    /\ Bytes(buf, off + 2, Len(bytes)) = bytes

FieldAt32(buf, off, bytes) ==
    /\ InRange(buf, off, 4 + Len(bytes))
    /\ getUint32(buf, off) = ToU32(Len(bytes))
    /\ Bytes(buf, off + 4, Len(bytes)) = bytes

TypeName(type) ==
    CASE type = HTTP_REQUEST -> "HTTP_REQUEST"
      [] type = HTTP_RESPONSE -> "HTTP_RESPONSE"
      [] type = WS_CONNECT -> "WS_CONNECT"
      [] type = WS_DATA -> "WS_DATA"
      [] type = WS_CLOSE -> "WS_CLOSE"

\* C27: a decoder called with a buffer whose first byte is not its frame
\* type (another type's code or no type's) returns no frame and throws
\* the error naming the expected type; that error is thrown for no other
\* reason, the other failures being RangeError and SyntaxError.
C27_WrongFirstByteRefused ==
    codec.decoder # 0 =>
        /\ codec.buffer[1] # codec.decoder =>
              codec.out =
                  Throws("Expected " \o TypeName(codec.decoder) \o " frame")
        /\ codec.buffer[1] = codec.decoder =>
              codec.out.error \in {"none", "RangeError", "SyntaxError"}
        /\ codec.out.error # "none" => codec.out.frame = NoValue

\* the response decoder was given a buffer starting with 0xff
C27_Witness ==
    /\ codec.decoder = HTTP_RESPONSE
    /\ codec.buffer[1] = 255
    /\ codec.out.error = "Expected HTTP_RESPONSE frame"
    /\ codec.out.frame = NoValue

\* C28: sendData on the manager while there is no data channel or the
\* channel is not open throws 'DataChannel not open', hands nothing to the
\* channel and leaves the manager's connection state (and the callback's
\* having been invoked or not) as it was; and the manager as constructed
\* is in state disconnected and has invoked no state-change callback.
C28_SendDataNotOpen ==
    /\ mgr.state = "disconnected"
    /\ ~hist.notified
    /\ [][(hist'.send # NoSend /\ mgr.dc # "open") =>
              (/\ hist'.send.error = "DataChannel not open"
               /\ ~hist'.send.sent
               /\ mgr' = mgr
               /\ hist'.notified = hist.notified)]_vars

\* sendData has thrown on a channel that closed under a manager that is
\* still in state connected
C28_Witness ==
    /\ hist.send.error = "DataChannel not open"
    /\ mgr.dc = "closed"
    /\ mgr.state = "connected"

\* the live signaling sockets of device id d
LiveSockets(d) ==
    {s \in CloudSockIds :
        cloud.signal[s].status = "live" /\ cloud.signal[s].key = d}

\* C29: at the signaling service, at every instant at most one live
\* WebSocket is registered per device id, and it is the one the map holds; a
\* new authenticated connection for a device id leaves the prior socket
\* closed with the superseded reason and the map entry holding the new
\* socket; and the close path of a socket removes the entry of its device id
\* only when the entry is that socket, never the entry of a newer one.
C29_OneLiveSocketPerDevice ==
    /\ [](\A d \in DeviceIds :
             /\ Cardinality(LiveSockets(d)) <= 1
             /\ LiveSockets(d) \subseteq {cloud.endpoints[d]})
    /\ [][\A s \in CloudSockIds :
             LET d == cloud'.signal[s].key
                 prior == cloud.endpoints[d]
             IN  /\ (cloud.signal[s].status = "unused" /\
                      cloud'.signal[s].status = "live") =>
                         /\ cloud'.endpoints[d] = s
                         /\ (prior # 0 /\ cloud.signal[prior].status = "live") =>
                                /\ cloud'.signal[prior].status = "closed"
                                /\ cloud'.signal[prior].reason = "superseded"
                 /\ (cloud.signal[s].status = "closed" /\
                      cloud'.signal[s].status = "gone") =>
                         cloud'.endpoints[d] =
                             IF prior = s THEN 0 ELSE prior]_vars

\* the close path of a superseded socket has run while the newer socket of
\* the device id is live, and the entry still holds the newer socket
C29_Witness ==
    \E s, t \in CloudSockIds :
        /\ cloud.signal[s].status = "gone"
        /\ cloud.signal[s].reason = "superseded"
        /\ cloud.signal[s].key = cloud.signal[t].key
        /\ cloud.signal[t].status = "live"
        /\ cloud.endpoints[cloud.signal[t].key] = t

\* C30: at the relay, a session id never has more than two admitted
\* endpoints: a connection to a session with no endpoint is admitted as first
\* party, one to a session with one endpoint as second party (so two
\* parties connecting to an empty session are both admitted), and one that
\* arrives while two are admitted is rejected and admitted nowhere.
C30_AtMostTwoAdmitted ==
    /\ [](\A sid \in SessionIds : Cardinality(Admitted(cloud, sid)) <= 2)
    /\ [][\A r \in CloudSockIds :
             (cloud.relay[r].status = "unused" /\
              cloud'.relay[r].status # "unused") =>
                 LET sid == cloud'.relay[r].key
                     n == Cardinality(Admitted(cloud, sid))
                 IN  /\ n = 0 => /\ cloud'.relay[r].status = "live"
                                 /\ cloud'.relay[r].reason = "first"
                     /\ n = 1 => /\ cloud'.relay[r].status = "live"
                                 /\ cloud'.relay[r].reason = "second"
                     /\ n >= 2 => /\ cloud'.relay[r].status = "rejected"
                                  /\ Admitted(cloud', sid) = Admitted(cloud, sid)]_vars

\* a session with its first and its second party admitted, and a third
\* connection to it rejected
C30_Witness ==
    \E sid \in SessionIds, r \in CloudSockIds :
        /\ Cardinality(Admitted(cloud, sid)) = 2
        /\ {cloud.relay[x].reason : x \in Admitted(cloud, sid)} =
               {"first", "second"}
        /\ cloud.relay[r].status = "rejected"
        /\ cloud.relay[r].key = sid

\* C31: at the signaling service a routed frame whose target device
\* belongs to another user than the sender is delivered to no socket; the
\* sender is sent an error frame and its session stays open, the endpoint
\* map and every socket as they were.
C31_CrossUserNotDelivered ==
    [][(cloud'.route # NoRoute /\
        UserOf(cloud'.route.target) # UserOf(cloud'.route.sender)) =>
           /\ cloud'.route.delivered = 0
           /\ cloud'.route.reply = "error"
           /\ cloud'.signal[cloud'.route.from].status = "live"
           /\ cloud'.signal = cloud.signal
           /\ cloud'.endpoints = cloud.endpoints]_vars

\* d1 of user U1 has sent an offer for d2 of user U2 while d2 is connected
C31_Witness ==
    /\ cloud.route.type = "offer"
    /\ cloud.route.sender = "d1"
    /\ cloud.route.target = "d2"
    /\ cloud.route.reply = "error"
    /\ cloud.endpoints["d2"] # 0
    /\ cloud.signal[cloud.endpoints["d2"]].status = "live"

\* C32: a proxied sub-connection created while the transport is open (its
\* WS_CONNECT was sent), which the host accepts (no WS_CLOSE comes for it),
\* eventually is OPEN on the browser side as a result of the frames received
\* over the tunnel.
C32_EventuallyOpen ==
    \A id \in ConnIds :
        (id \in wsm.connectFrames /\ wsm.conn[id].readyState = "CONNECTING")
            ~> (wsm.conn[id].readyState \in {"OPEN", "CLOSED"})

\* a step in which createConnection ran
Creates == wsm'.nextConnectionId # wsm.nextConnectionId

C34_NoClosedEntry ==
    \A id \in wsm.connections : wsm.conn[id].readyState # "CLOSED"

\* C35: the close event of a proxied sub-connection fires at most once over
\* its lifetime, whatever the order of local close(), incoming WS_CLOSE
\* frames for its id, send errors and closeAll.
C35_CloseEventOnce ==
    \A id \in ConnIds : wsm.conn[id].closeEvents <= 1

\* C36: no message event is delivered on a proxied sub-connection that is
\* CLOSED: a WS_DATA frame arriving for its id after a local close() or an
\* incoming WS_CLOSE is dropped.
C36_NoMessageAfterClosed ==
    [][\A id \in ConnIds :
          wsm.conn[id].readyState = "CLOSED" =>
              wsm'.conn[id].messageEvents = wsm.conn[id].messageEvents]_vars

\* the state of the manager before the i-th setState call of the step
StateBefore(i) == IF i = 1 THEN mgr.state ELSE hist'.calls[i - 1].state

\* the calls of the step that entered failed with a notification
FailedEntries ==
    {i \in 1..Len(hist'.calls) :
        hist'.calls[i].notified /\ hist'.calls[i].state = "failed"}

\* onStateChange is invoked by exactly the setState calls that change the
\* state value, and the state is written by setState only
NotifiedOnChangeOnly ==
    /\ \A i \in 1..Len(hist'.calls) :
           hist'.calls[i].notified <=> hist'.calls[i].state # StateBefore(i)
    /\ mgr'.state = StateBefore(Len(hist'.calls) + 1)

\* C37 as claimed: onStateChange is invoked only when the state value
\* changes (no two equal consecutive notified states), and the failure
\* counter rises by exactly one per entry into failed, a failure signalled
\* while the state is failed already not being counted.
C37_OneCountPerFailedEntry ==
    [][/\ NotifiedOnChangeOnly
       /\ hook'.failureCount = hook.failureCount + Cardinality(FailedEntries)
      ]_vars

\* C37 amended: the same, the counter rising by one per entry into failed
\* while the relay fallback has not begun (isRelayFallback is false), and
\* not at all once it has.
C37_OneCountPerFailedEntryBeforeFallback ==
    [][/\ NotifiedOnChangeOnly
       /\ hook'.failureCount =
              IF hook.isRelayFallback THEN hook.failureCount
              ELSE hook.failureCount + Cardinality(FailedEntries)
      ]_vars

\* a step has signalled a failure while the state was failed: setState was
\* called with failed and did not notify, after two counted failures
C37_Witness ==
    /\ \E i \in 1..Len(hist.calls) :
           hist.calls[i] = [state |-> "failed", notified |-> FALSE]
    /\ mgr.state = "failed"
    /\ hook.failureCount = 2
    /\ ~hook.isRelayFallback

\* C38: a manager has at most one open signaling WebSocket at any time:
\* connect(), the retries of handleReconnect included, opens no second
\* signaling socket while an earlier one of the manager is open.
C38_OneOpenSignalingSocket ==
    Cardinality({s \in SockIds : mgr.sock[s] = "open"}) <= 1

\* the relay fallback has begun: the hook has called stopReconnection
\* (useWebRTC.ts lines 107-117)
FallbackBegun == hook.rtc /\ hook.isRelayFallback

\* C39: once the relay fallback has begun, no connect() run by a reconnect
\* timer creates a peer connection and a signaling socket, and no SDP offer
\* of such a run is sent, even if the timer was scheduled before the
\* fallback.
C39_NoRetryAfterFallback ==
    [][FallbackBegun =>
          /\ \A p \in mgr'.procs \ mgr.procs :
                 ~(p.origin = "timer" /\ p.phase = "sig")
          /\ \A p \in mgr.procs \ mgr'.procs :
                 (p.origin = "timer" /\ p.phase = "offer") =>
                     mgr'.pc # "connecting"]_vars

\* C40: in every frame an encoder produced, each 16-bit length prefix is the
\* number of bytes written for its field and each 16-bit integer field is
\* the value the caller gave: a value outside the width is never written
\* wrapped.
C40_FieldsAsGiven ==
    (codec.frame # NoValue /\ codec.buffer # <<>>) =>
        LET f == codec.frame
            buf == codec.buffer
        IN  /\ f.type = HTTP_RESPONSE =>
                  /\ InRange(buf, 5, 2)
                  /\ getUint16(buf, 5) = f.statusCode
            /\ f.type = WS_CLOSE =>
                  /\ InRange(buf, 5, 4)
                  /\ getUint16(buf, 5) = f.closeCode
                  /\ getUint16(buf, 7) = Len(TextEncode(f.reason))
                  /\ Len(buf) = 9 + Len(TextEncode(f.reason))

====
